---- MODULE Spec2Model ----
(***************************************************************************)
(* redNES: the 6502 CPU core (src/src/cpu.rs), its opcode table            *)
(* (src/src/opcodes.rs) and the memory bus (src/src/bus.rs).               *)
(*                                                                         *)
(* The CPU is the record of its fields; every method of `impl CPU` is an   *)
(* operator from a CPU record to a CPU record.  The field `ctl` of the     *)
(* record is not a field of the struct: it records how the method ended    *)
(* ("ok", "panic" for a Rust panic, "return" for the `return` of BRK).     *)
(* The memory array is kept sparse: an address outside the domain of the   *)
(* function holds 0, the value the array is constructed with.              *)
(***************************************************************************)
EXTENDS Integers, Naturals, Sequences, FiniteSets, TLC

VARIABLES
    acc,              \* CPU.acc
    status,           \* CPU.status
    index_x,          \* CPU.index_x
    index_y,          \* CPU.index_y
    sp,               \* CPU.sp
    pc,               \* CPU.pc
    memory,           \* CPU.memory
    phase,            \* "idle", "running" (inside run_with_callback), "panicked"
    overflow_checks,  \* build profile: TRUE when integer overflow panics (debug)
    host_calls,       \* number of calls the host has made on the CPU
    fetched,          \* number of opcodes the current run has fetched
    calls,            \* number of callback invocations of the current run
    seen,             \* the CPU the callback was handed last
    last,             \* history: the last operation and the CPU it started from
    cpu_vram,         \* Bus.cpu_vram
    rom,              \* Bus.rom
    bus_phase,        \* "absent" (no Bus), "idle", "written", "done", "panicked"
    bus_ops,          \* number of accesses made on the Bus
    bus_last          \* history: the last access and the Bus it was made on

vars == <<acc, status, index_x, index_y, sp, pc, memory, phase,
          overflow_checks, host_calls, fetched, calls, seen, last,
          cpu_vram, rom, bus_phase, bus_ops, bus_last>>

\* the fields of the Bus and the history of its accesses
busvars == <<cpu_vram, rom, bus_phase, bus_ops, bus_last>>

-----------------------------------------------------------------------------
(* Constants of cpu.rs *)

CARRY == 1
ZERO == 2
INTERRUPT_DISABLE == 4
DECIMAL_MODE == 8
BREAK == 16
BREAK2 == 32
OVERFLOW == 64
NEGATIVE == 128

STACK == 256
STACK_RESET == 253

\* memory: [u8; 0xFFFF], the number of bytes of the array
MEM_LEN == 65535

\* load() copies the program to 0x0600 and stores that in the vector 0xFFFC
LOAD_BASE == 1536
RESET_VECTOR == 65532

\* the value of a read, or of an address computation, that panicked
PANIC == -1

-----------------------------------------------------------------------------
(* Machine arithmetic *)

RECURSIVE BitAnd(_, _)
BitAnd(a, b) ==
    IF a = 0 \/ b = 0 THEN 0
    ELSE (a % 2) * (b % 2) + 2 * BitAnd(a \div 2, b \div 2)

RECURSIVE BitOr(_, _)
BitOr(a, b) ==
    IF a = 0 THEN b
    ELSE IF b = 0 THEN a
    ELSE (IF a % 2 = 1 \/ b % 2 = 1 THEN 1 ELSE 0) + 2 * BitOr(a \div 2, b \div 2)

RECURSIVE BitXor(_, _)
BitXor(a, b) ==
    IF a = 0 THEN b
    ELSE IF b = 0 THEN a
    ELSE (IF a % 2 # b % 2 THEN 1 ELSE 0) + 2 * BitXor(a \div 2, b \div 2)

\* !flag on u8
BitNot8(a) == 255 - a

\* u8::wrapping_add, u8::wrapping_sub
wrapping_add8(a, b) == (a + b) % 256
wrapping_sub8(a, b) == (a + 256 - b) % 256

\* u16::wrapping_add
wrapping_add16(a, b) == (a + b) % 65536

\* `as i8` of a u8, `as u8` of an i8, `as u16` of an i8 (sign extension)
as_i8(v) == IF v >= 128 THEN v - 256 ELSE v
i8_as_u8(x) == (x + 256) % 256
i8_as_u16(x) == (x + 65536) % 65536

\* i8::wrapping_neg, i8::wrapping_sub
wrap_i8(n) == ((n + 128 + 512) % 256) - 128
i8_wrapping_neg(x) == wrap_i8(0 - x)
i8_wrapping_sub(x, y) == wrap_i8(x - y)

\* `a + b` and `a += b` on u16: panics when overflow checks are compiled in,
\* wraps otherwise
add_u16(a, b) ==
    IF a = PANIC \/ b = PANIC THEN PANIC
    ELSE IF a + b > 65535
         THEN (IF overflow_checks THEN PANIC ELSE (a + b) % 65536)
         ELSE a + b

\* `value <<= 1` and `value >>= 1` on u8
shl8(v) == (v * 2) % 256
shr8(v) == v \div 2

-----------------------------------------------------------------------------
(* The CPU record and its memory *)

Panic(c) == [c EXCEPT !.ctl = "panic"]

\* the array as constructed: [0; 0xFFFF]
ZeroMemory == [x \in {} |-> 0]

\* memory[address] = value on the sparse array
Store(m, address, value) ==
    IF value = 0
    THEN [x \in (DOMAIN m) \ {address} |-> m[x]]
    ELSE [x \in (DOMAIN m) \cup {address} |->
              IF x = address THEN value ELSE m[x]]

\* memory[address]
Load8(m, address) == IF address \in DOMAIN m THEN m[address] ELSE 0

\* impl Memory for CPU: indexing outside the array panics
mem_read(c, address) ==
    IF address \notin 0..(MEM_LEN - 1) THEN PANIC
    ELSE Load8(c.memory, address)

mem_write(c, address, value) ==
    IF address \notin 0..(MEM_LEN - 1) THEN Panic(c)
    ELSE [c EXCEPT !.memory = Store(c.memory, address, value)]

mem_read_u16(c, pos) ==
    LET lo == mem_read(c, pos)
    IN  IF lo = PANIC THEN PANIC
        ELSE LET hi == mem_read(c, add_u16(pos, 1))
             IN  IF hi = PANIC THEN PANIC
                 ELSE BitOr(hi * 256, lo)

mem_write_u16(c, pos, data) ==
    LET hi == data \div 256
        lo == BitAnd(data, 255)
        c1 == mem_write(c, pos, lo)
    IN  IF c1.ctl = "panic" THEN c1
        ELSE mem_write(c1, add_u16(pos, 1), hi)

CPU_new ==
    [acc |-> 0,
     status |-> BitOr(INTERRUPT_DISABLE, BREAK2),
     index_x |-> 0,
     index_y |-> 0,
     sp |-> STACK_RESET,
     pc |-> 0,
     memory |-> ZeroMemory,
     ctl |-> "ok"]

set_flag(c, flag, value) ==
    IF value
    THEN [c EXCEPT !.status = BitOr(c.status, flag)]
    ELSE [c EXCEPT !.status = BitAnd(c.status, BitNot8(flag))]

get_flag(c, flag) == BitAnd(c.status, flag) > 0

\* the negative flag taken from bit 6
update_zero_and_negative_flags_Bit6(c, value) ==
    set_flag(set_flag(c, ZERO, value = 0), NEGATIVE, BitAnd(value, 64) # 0)

update_zero_and_negative_flags(c, value) ==
    set_flag(set_flag(c, ZERO, value = 0),
             NEGATIVE, BitAnd(value, 128) # 0)

-----------------------------------------------------------------------------
(* Operand resolution *)

\* Indirect,Y taking the high byte of its base from base + 1 without the
\* wrap inside the zero page (pointer 0xFF reads 0x0100)
get_operand_address_PageCross(c, mode) ==
    CASE mode = "Immediate" -> c.pc
      [] mode = "ZeroPage" -> mem_read(c, c.pc)
      [] mode = "Absolute" -> mem_read_u16(c, c.pc)
      [] mode = "ZeroPageX" ->
            LET pos == mem_read(c, c.pc)
            IN  IF pos = PANIC THEN PANIC ELSE wrapping_add8(pos, c.index_x)
      [] mode = "ZeroPageY" ->
            LET pos == mem_read(c, c.pc)
            IN  IF pos = PANIC THEN PANIC ELSE wrapping_add8(pos, c.index_y)
      [] mode = "AbsoluteX" ->
            LET base == mem_read_u16(c, c.pc)
            IN  IF base = PANIC THEN PANIC ELSE wrapping_add16(base, c.index_x)
      [] mode = "AbsoluteY" ->
            LET base == mem_read_u16(c, c.pc)
            IN  IF base = PANIC THEN PANIC ELSE wrapping_add16(base, c.index_y)
      [] mode = "IndirectX" ->
            LET base == mem_read(c, c.pc)
            IN  IF base = PANIC THEN PANIC
                ELSE LET ptr == wrapping_add8(base, c.index_x)
                         lo == mem_read(c, ptr)
                         hi == mem_read(c, wrapping_add8(ptr, 1))
                     IN  BitOr(hi * 256, lo)
      [] mode = "IndirectY" ->
            LET base == mem_read(c, c.pc)
            IN  IF base = PANIC THEN PANIC
                ELSE LET lo == mem_read(c, base)
                         hi == mem_read(c, base + 1)
                         deref_base == BitOr(hi * 256, lo)
                     IN  wrapping_add16(deref_base, c.index_y)
      [] mode = "NonAddressing" -> PANIC

get_operand_address(c, mode) ==
    CASE mode = "Immediate" -> c.pc
      [] mode = "ZeroPage" -> mem_read(c, c.pc)
      [] mode = "Absolute" -> mem_read_u16(c, c.pc)
      [] mode = "ZeroPageX" ->
            LET pos == mem_read(c, c.pc)
            IN  IF pos = PANIC THEN PANIC ELSE wrapping_add8(pos, c.index_x)
      [] mode = "ZeroPageY" ->
            LET pos == mem_read(c, c.pc)
            IN  IF pos = PANIC THEN PANIC ELSE wrapping_add8(pos, c.index_y)
      [] mode = "AbsoluteX" ->
            LET base == mem_read_u16(c, c.pc)
            IN  IF base = PANIC THEN PANIC ELSE wrapping_add16(base, c.index_x)
      [] mode = "AbsoluteY" ->
            LET base == mem_read_u16(c, c.pc)
            IN  IF base = PANIC THEN PANIC ELSE wrapping_add16(base, c.index_y)
      [] mode = "IndirectX" ->
            LET base == mem_read(c, c.pc)
            IN  IF base = PANIC THEN PANIC
                ELSE LET ptr == wrapping_add8(base, c.index_x)
                         lo == mem_read(c, ptr)
                         hi == mem_read(c, wrapping_add8(ptr, 1))
                     IN  BitOr(hi * 256, lo)
      [] mode = "IndirectY" ->
            LET base == mem_read(c, c.pc)
            IN  IF base = PANIC THEN PANIC
                ELSE LET lo == mem_read(c, base)
                         hi == mem_read(c, wrapping_add8(base, 1))
                         deref_base == BitOr(hi * 256, lo)
                     IN  wrapping_add16(deref_base, c.index_y)
      [] mode = "NonAddressing" -> PANIC

\* the operand byte of a handler: mem_read(get_operand_address(mode))
operand(c, mode) == mem_read(c, get_operand_address(c, mode))

-----------------------------------------------------------------------------
(* Instruction handlers *)

lda(c, mode) ==
    LET value == operand(c, mode)
    IN  IF value = PANIC THEN Panic(c)
        ELSE update_zero_and_negative_flags([c EXCEPT !.acc = value], value)

ldx(c, mode) ==
    LET value == operand(c, mode)
    IN  IF value = PANIC THEN Panic(c)
        ELSE update_zero_and_negative_flags([c EXCEPT !.index_x = value], value)

ldy(c, mode) ==
    LET value == operand(c, mode)
    IN  IF value = PANIC THEN Panic(c)
        ELSE update_zero_and_negative_flags([c EXCEPT !.index_y = value], value)

sta(c, mode) == mem_write(c, get_operand_address(c, mode), c.acc)
stx(c, mode) == mem_write(c, get_operand_address(c, mode), c.index_x)
sty(c, mode) == mem_write(c, get_operand_address(c, mode), c.index_y)

tax(c) == update_zero_and_negative_flags([c EXCEPT !.index_x = c.acc], c.acc)
tay(c) == update_zero_and_negative_flags([c EXCEPT !.index_y = c.acc], c.acc)
txa(c) == update_zero_and_negative_flags([c EXCEPT !.acc = c.index_x], c.index_x)
tya(c) == update_zero_and_negative_flags([c EXCEPT !.acc = c.index_y], c.index_y)
tsx(c) == update_zero_and_negative_flags([c EXCEPT !.index_x = c.sp], c.sp)
txs(c) == [c EXCEPT !.sp = c.index_x]

inc(c, mode) ==
    LET addr == get_operand_address(c, mode)
        value == mem_read(c, addr)
    IN  IF value = PANIC THEN Panic(c)
        ELSE LET result == wrapping_add8(value, 1)
             IN  update_zero_and_negative_flags(mem_write(c, addr, result), result)

\* inx written as `self.index_x += 1`, which panics on overflow in a build
\* with overflow checks and wraps in one without
inx_Checked(c) ==
    IF overflow_checks /\ c.index_x = 255 THEN Panic(c)
    ELSE LET c1 == [c EXCEPT !.index_x = wrapping_add8(c.index_x, 1)]
         IN  update_zero_and_negative_flags(c1, c1.index_x)

\* the arm of INX calling inc with the NonAddressing mode of its table entry
inx_ThroughInc(c) == inc(c, "NonAddressing")

inx(c) ==
    LET r == wrapping_add8(c.index_x, 1)
    IN  update_zero_and_negative_flags([c EXCEPT !.index_x = r], r)

iny(c) ==
    LET r == wrapping_add8(c.index_y, 1)
    IN  update_zero_and_negative_flags([c EXCEPT !.index_y = r], r)

dec(c, mode) ==
    LET addr == get_operand_address(c, mode)
        value == mem_read(c, addr)
    IN  IF value = PANIC THEN Panic(c)
        ELSE LET result == wrapping_sub8(value, 1)
             IN  update_zero_and_negative_flags(mem_write(c, addr, result), result)

dex(c) ==
    LET r == wrapping_sub8(c.index_x, 1)
    IN  update_zero_and_negative_flags([c EXCEPT !.index_x = r], r)

dey(c) ==
    LET r == wrapping_sub8(c.index_y, 1)
    IN  update_zero_and_negative_flags([c EXCEPT !.index_y = r], r)

\* adc that honours decimal mode: with D set, a low nibble above 9 is
\* corrected by 6 as the NMOS 6502 does
adc_Decimal(c, mode) ==
    LET value == operand(c, mode)
    IN  IF value = PANIC THEN Panic(c)
        ELSE LET carry_in == IF get_flag(c, CARRY) THEN 1 ELSE 0
                 binary == c.acc + value + carry_in
                 sum == IF /\ get_flag(c, DECIMAL_MODE)
                           /\ BitAnd(c.acc, 15) + BitAnd(value, 15) + carry_in > 9
                        THEN binary + 6
                        ELSE binary
                 c1 == set_flag(c, CARRY, sum > 255)
                 result == sum % 256
                 overflow ==
                     BitAnd(BitAnd(BitXor(c.acc, result), BitXor(value, result)),
                            128) # 0
                 c2 == set_flag(c1, OVERFLOW, overflow)
             IN  update_zero_and_negative_flags([c2 EXCEPT !.acc = result], result)

\* adc without the carry-in: sum = acc + value
adc_NoCarryIn(c, mode) ==
    LET value == operand(c, mode)
    IN  IF value = PANIC THEN Panic(c)
        ELSE LET sum == c.acc + value
                 c1 == set_flag(c, CARRY, sum > 255)
                 result == sum % 256
                 overflow ==
                     BitAnd(BitAnd(BitXor(c.acc, result), BitXor(value, result)),
                            128) # 0
                 c2 == set_flag(c1, OVERFLOW, overflow)
             IN  update_zero_and_negative_flags([c2 EXCEPT !.acc = result], result)

adc(c, mode) ==
    LET value == operand(c, mode)
    IN  IF value = PANIC THEN Panic(c)
        ELSE LET carry_in == IF get_flag(c, CARRY) THEN 1 ELSE 0
                 sum == c.acc + value + carry_in
                 c1 == set_flag(c, CARRY, sum > 255)
                 result == sum % 256
                 overflow ==
                     BitAnd(BitAnd(BitXor(c.acc, result), BitXor(value, result)),
                            128) # 0
                 c2 == set_flag(c1, OVERFLOW, overflow)
             IN  update_zero_and_negative_flags([c2 EXCEPT !.acc = result], result)

\* sbc with the two's complement of the operand: wrapping_neg() alone
sbc_Negated(c, mode) ==
    LET value == operand(c, mode)
    IN  IF value = PANIC THEN Panic(c)
        ELSE LET inverted_value == i8_as_u8(i8_wrapping_neg(as_i8(value)))
                 temp1 == mem_write(c, 0, inverted_value)
                 temp2 == [temp1 EXCEPT !.pc = 0]
                 temp3 == adc(temp2, "Immediate")
             IN  [c EXCEPT !.acc = temp3.acc, !.status = temp3.status]

\* sbc that runs the ADC path on the CPU itself instead of on a copy
sbc_OnSelf(c, mode) ==
    LET value == operand(c, mode)
    IN  IF value = PANIC THEN Panic(c)
        ELSE LET inverted_value ==
                     i8_as_u8(i8_wrapping_sub(i8_wrapping_neg(as_i8(value)), 1))
                 temp1 == mem_write(c, 0, inverted_value)
                 temp2 == [temp1 EXCEPT !.pc = 0]
                 temp3 == adc(temp2, "Immediate")
             IN  IF temp3.ctl = "panic" THEN Panic(c)
                 ELSE [temp3 EXCEPT !.pc = c.pc]

sbc(c, mode) ==
    LET value == operand(c, mode)
    IN  IF value = PANIC THEN Panic(c)
        ELSE LET inverted_value ==
                     i8_as_u8(i8_wrapping_sub(i8_wrapping_neg(as_i8(value)), 1))
                 \* CPU { acc, status, ..*self }: a copy of every field
                 temp_cpu == c
                 temp1 == mem_write(temp_cpu, 0, inverted_value)
                 temp2 == [temp1 EXCEPT !.pc = 0]
                 temp3 == adc(temp2, "Immediate")
             IN  IF temp3.ctl = "panic" THEN Panic(c)
                 ELSE [c EXCEPT !.acc = temp3.acc, !.status = temp3.status]

and(c, mode) ==
    LET value == operand(c, mode)
    IN  IF value = PANIC THEN Panic(c)
        ELSE LET r == BitAnd(c.acc, value)
             IN  update_zero_and_negative_flags([c EXCEPT !.acc = r], r)

eor(c, mode) ==
    LET value == operand(c, mode)
    IN  IF value = PANIC THEN Panic(c)
        ELSE LET r == BitXor(c.acc, value)
             IN  update_zero_and_negative_flags([c EXCEPT !.acc = r], r)

ora(c, mode) ==
    LET value == operand(c, mode)
    IN  IF value = PANIC THEN Panic(c)
        ELSE LET r == BitOr(c.acc, value)
             IN  update_zero_and_negative_flags([c EXCEPT !.acc = r], r)

compare(c, mode, reg_value) ==
    LET value == operand(c, mode)
    IN  IF value = PANIC THEN Panic(c)
        ELSE LET result == wrapping_sub8(reg_value, value)
                 c1 == set_flag(c, CARRY, reg_value > value)
             IN  update_zero_and_negative_flags(c1, result)

\* bit taking N and V from acc & value instead of from the operand
bit_FromAnd(c, mode) ==
    LET value == operand(c, mode)
    IN  IF value = PANIC THEN Panic(c)
        ELSE LET r == BitAnd(c.acc, value)
                 c1 == set_flag(c, ZERO, r = 0)
                 c2 == set_flag(c1, NEGATIVE, BitAnd(r, NEGATIVE) # 0)
             IN  set_flag(c2, OVERFLOW, BitAnd(r, OVERFLOW) # 0)

bit(c, mode) ==
    LET value == operand(c, mode)
    IN  IF value = PANIC THEN Panic(c)
        ELSE LET c1 == set_flag(c, ZERO, BitAnd(c.acc, value) = 0)
                 c2 == set_flag(c1, NEGATIVE, BitAnd(value, NEGATIVE) # 0)
             IN  set_flag(c2, OVERFLOW, BitAnd(value, OVERFLOW) # 0)

(* Stack *)

\* stack_push that moves sp before it writes
stack_push_DecrementFirst(c, value) ==
    LET c1 == [c EXCEPT !.sp = wrapping_sub8(c.sp, 1)]
    IN  mem_write(c1, STACK + c1.sp, value)

stack_push(c, value) ==
    LET c1 == mem_write(c, STACK + c.sp, value)
    IN  [c1 EXCEPT !.sp = wrapping_sub8(c.sp, 1)]

\* stack_pop changes sp and returns the byte: the CPU after the pop, and the byte
stack_pop_cpu(c) == [c EXCEPT !.sp = wrapping_add8(c.sp, 1)]
stack_pop_value(c) == mem_read(stack_pop_cpu(c), STACK + stack_pop_cpu(c).sp)

stack_push_u16(c, value) ==
    LET hi == value \div 256
        lo == BitAnd(value, 255)
    IN  stack_push(stack_push(c, hi), lo)

stack_pop_u16_cpu(c) == stack_pop_cpu(stack_pop_cpu(c))
stack_pop_u16_value(c) ==
    LET lo == stack_pop_value(c)
        hi == stack_pop_value(stack_pop_cpu(c))
    IN  BitOr(hi * 256, lo)

pha(c) == stack_push(c, c.acc)

pla(c) ==
    LET v == stack_pop_value(c)
    IN  update_zero_and_negative_flags([stack_pop_cpu(c) EXCEPT !.acc = v], v)

\* php pushing the status as it is, without B and U
php_PlainStatus(c) == stack_push(c, c.status)

php(c) ==
    LET flags == BitOr(BitOr(c.status, BREAK), BREAK2)
    IN  stack_push(c, flags)

\* plp without self.set_flag(StatusFlags::BREAK, false)
plp_KeepsBreak(c) ==
    LET c1 == [stack_pop_cpu(c) EXCEPT !.status = stack_pop_value(c)]
    IN  set_flag(c1, BREAK2, TRUE)

plp(c) ==
    LET c1 == [stack_pop_cpu(c) EXCEPT !.status = stack_pop_value(c)]
    IN  set_flag(set_flag(c1, BREAK, FALSE), BREAK2, TRUE)

branch(c, condition) ==
    IF condition
    THEN LET raw == mem_read(c, c.pc)
         IN  IF raw = PANIC THEN Panic(c)
             ELSE LET jump == as_i8(raw)
                      jump_addr ==
                          wrapping_add16(wrapping_add16(c.pc, 1), i8_as_u16(jump))
                  IN  [c EXCEPT !.pc = jump_addr]
    ELSE c

-----------------------------------------------------------------------------
(* Opcode table, opcodes.rs *)

Instruction(code, mnemonic, len, mode, cycles) ==
    [code |-> code, mnemonic |-> mnemonic, len |-> len, mode |-> mode,
     cycles |-> cycles]

CPU_INSTRUCTIONS ==
  <<
    Instruction(0, "BRK", 1, "NonAddressing", 7),  \* 0x00
    Instruction(234, "NOP", 1, "NonAddressing", 2),  \* 0xEA
    Instruction(64, "RTI", 1, "NonAddressing", 6),  \* 0x40
    Instruction(76, "JMP", 3, "Absolute", 3),  \* 0x4C
    Instruction(108, "JMP", 3, "NonAddressing", 5),  \* 0x6C
    Instruction(32, "JSR", 3, "Absolute", 6),  \* 0x20
    Instruction(96, "RTS", 1, "NonAddressing", 6),  \* 0x60
    Instruction(169, "LDA", 2, "Immediate", 2),  \* 0xA9
    Instruction(165, "LDA", 2, "ZeroPage", 3),  \* 0xA5
    Instruction(181, "LDA", 2, "ZeroPageX", 4),  \* 0xB5
    Instruction(173, "LDA", 3, "Absolute", 4),  \* 0xAD
    Instruction(189, "LDA", 3, "AbsoluteX", 4),  \* 0xBD
    Instruction(185, "LDA", 3, "AbsoluteY", 4),  \* 0xB9
    Instruction(161, "LDA", 2, "IndirectX", 6),  \* 0xA1
    Instruction(177, "LDA", 2, "IndirectY", 5),  \* 0xB1
    Instruction(162, "LDX", 2, "Immediate", 2),  \* 0xA2
    Instruction(166, "LDX", 2, "ZeroPage", 3),  \* 0xA6
    Instruction(182, "LDX", 2, "ZeroPageY", 4),  \* 0xB6
    Instruction(174, "LDX", 3, "Absolute", 4),  \* 0xAE
    Instruction(190, "LDX", 3, "AbsoluteY", 4),  \* 0xBE
    Instruction(160, "LDY", 2, "Immediate", 2),  \* 0xA0
    Instruction(164, "LDY", 2, "ZeroPage", 3),  \* 0xA4
    Instruction(180, "LDY", 2, "ZeroPageX", 4),  \* 0xB4
    Instruction(172, "LDY", 3, "Absolute", 4),  \* 0xAC
    Instruction(188, "LDY", 3, "AbsoluteX", 4),  \* 0xBC
    Instruction(133, "STA", 2, "ZeroPage", 3),  \* 0x85
    Instruction(149, "STA", 2, "ZeroPageX", 4),  \* 0x95
    Instruction(141, "STA", 3, "Absolute", 4),  \* 0x8D
    Instruction(157, "STA", 3, "AbsoluteX", 5),  \* 0x9D
    Instruction(153, "STA", 3, "AbsoluteY", 5),  \* 0x99
    Instruction(129, "STA", 2, "IndirectX", 6),  \* 0x81
    Instruction(145, "STA", 2, "IndirectY", 6),  \* 0x91
    Instruction(134, "STX", 2, "ZeroPage", 3),  \* 0x86
    Instruction(150, "STX", 2, "ZeroPageY", 4),  \* 0x96
    Instruction(142, "STX", 3, "Absolute", 4),  \* 0x8E
    Instruction(132, "STY", 2, "ZeroPage", 3),  \* 0x84
    Instruction(148, "STY", 2, "ZeroPageX", 4),  \* 0x94
    Instruction(140, "STY", 3, "Absolute", 4),  \* 0x8C
    Instruction(170, "TAX", 1, "NonAddressing", 2),  \* 0xAA
    Instruction(168, "TAY", 1, "NonAddressing", 2),  \* 0xA8
    Instruction(186, "TSX", 1, "NonAddressing", 2),  \* 0xBA
    Instruction(138, "TXA", 1, "NonAddressing", 2),  \* 0x8A
    Instruction(154, "TXS", 1, "NonAddressing", 2),  \* 0x9A
    Instruction(152, "TYA", 1, "NonAddressing", 2),  \* 0x98
    Instruction(72, "PHA", 1, "NonAddressing", 3),  \* 0x48
    Instruction(8, "PHP", 1, "NonAddressing", 3),  \* 0x08
    Instruction(104, "PLA", 1, "NonAddressing", 4),  \* 0x68
    Instruction(40, "PLP", 1, "NonAddressing", 4),  \* 0x28
    Instruction(41, "AND", 2, "Immediate", 2),  \* 0x29
    Instruction(37, "AND", 2, "ZeroPage", 3),  \* 0x25
    Instruction(53, "AND", 2, "ZeroPageX", 4),  \* 0x35
    Instruction(45, "AND", 3, "Absolute", 4),  \* 0x2D
    Instruction(61, "AND", 3, "AbsoluteX", 4),  \* 0x3D
    Instruction(57, "AND", 3, "AbsoluteY", 4),  \* 0x39
    Instruction(33, "AND", 2, "IndirectX", 6),  \* 0x21
    Instruction(49, "AND", 2, "IndirectY", 5),  \* 0x31
    Instruction(73, "EOR", 2, "Immediate", 2),  \* 0x49
    Instruction(69, "EOR", 2, "ZeroPage", 3),  \* 0x45
    Instruction(85, "EOR", 2, "ZeroPageX", 4),  \* 0x55
    Instruction(77, "EOR", 3, "Absolute", 4),  \* 0x4D
    Instruction(93, "EOR", 3, "AbsoluteX", 4),  \* 0x5D
    Instruction(89, "EOR", 3, "AbsoluteY", 4),  \* 0x59
    Instruction(65, "EOR", 2, "IndirectX", 6),  \* 0x41
    Instruction(81, "EOR", 2, "IndirectY", 5),  \* 0x51
    Instruction(9, "ORA", 2, "Immediate", 2),  \* 0x09
    Instruction(5, "ORA", 2, "ZeroPage", 3),  \* 0x05
    Instruction(21, "ORA", 2, "ZeroPageX", 4),  \* 0x15
    Instruction(13, "ORA", 3, "Absolute", 4),  \* 0x0D
    Instruction(29, "ORA", 3, "AbsoluteX", 4),  \* 0x1D
    Instruction(25, "ORA", 3, "AbsoluteY", 4),  \* 0x19
    Instruction(1, "ORA", 2, "IndirectX", 6),  \* 0x01
    Instruction(17, "ORA", 2, "IndirectY", 5),  \* 0x11
    Instruction(36, "BIT", 2, "ZeroPage", 3),  \* 0x24
    Instruction(44, "BIT", 3, "Absolute", 4),  \* 0x2C
    Instruction(105, "ADC", 2, "Immediate", 2),  \* 0x69
    Instruction(101, "ADC", 2, "ZeroPage", 3),  \* 0x65
    Instruction(117, "ADC", 2, "ZeroPageX", 4),  \* 0x75
    Instruction(109, "ADC", 3, "Absolute", 4),  \* 0x6D
    Instruction(125, "ADC", 3, "AbsoluteX", 4),  \* 0x7D
    Instruction(121, "ADC", 3, "AbsoluteY", 4),  \* 0x79
    Instruction(97, "ADC", 2, "IndirectX", 6),  \* 0x61
    Instruction(113, "ADC", 2, "IndirectY", 5),  \* 0x71
    Instruction(233, "SBC", 2, "Immediate", 2),  \* 0xE9
    Instruction(229, "SBC", 2, "ZeroPage", 3),  \* 0xE5
    Instruction(245, "SBC", 2, "ZeroPageX", 4),  \* 0xF5
    Instruction(237, "SBC", 3, "Absolute", 4),  \* 0xED
    Instruction(253, "SBC", 3, "AbsoluteX", 4),  \* 0xFD
    Instruction(249, "SBC", 3, "AbsoluteY", 4),  \* 0xF9
    Instruction(225, "SBC", 2, "IndirectX", 6),  \* 0xE1
    Instruction(241, "SBC", 2, "IndirectY", 5),  \* 0xF1
    Instruction(201, "CMP", 2, "Immediate", 2),  \* 0xC9
    Instruction(197, "CMP", 2, "ZeroPage", 3),  \* 0xC5
    Instruction(213, "CMP", 2, "ZeroPageX", 4),  \* 0xD5
    Instruction(205, "CMP", 3, "Absolute", 4),  \* 0xCD
    Instruction(221, "CMP", 3, "AbsoluteX", 4),  \* 0xDD
    Instruction(217, "CMP", 3, "AbsoluteY", 4),  \* 0xD9
    Instruction(193, "CMP", 2, "IndirectX", 6),  \* 0xC1
    Instruction(209, "CMP", 2, "IndirectY", 5),  \* 0xD1
    Instruction(224, "CPX", 2, "Immediate", 2),  \* 0xE0
    Instruction(228, "CPX", 2, "ZeroPage", 3),  \* 0xE4
    Instruction(236, "CPX", 3, "Absolute", 4),  \* 0xEC
    Instruction(192, "CPY", 2, "Immediate", 2),  \* 0xC0
    Instruction(196, "CPY", 2, "ZeroPage", 3),  \* 0xC4
    Instruction(204, "CPY", 3, "Absolute", 4),  \* 0xCC
    Instruction(230, "INC", 2, "ZeroPage", 5),  \* 0xE6
    Instruction(246, "INC", 2, "ZeroPageX", 6),  \* 0xF6
    Instruction(238, "INC", 3, "Absolute", 6),  \* 0xEE
    Instruction(254, "INC", 3, "AbsoluteX", 7),  \* 0xFE
    Instruction(232, "INX", 1, "NonAddressing", 2),  \* 0xE8
    Instruction(200, "INY", 1, "NonAddressing", 2),  \* 0xC8
    Instruction(198, "DEC", 2, "ZeroPage", 5),  \* 0xC6
    Instruction(214, "DEC", 2, "ZeroPageX", 6),  \* 0xD6
    Instruction(206, "DEC", 3, "Absolute", 6),  \* 0xCE
    Instruction(222, "DEC", 3, "AbsoluteX", 7),  \* 0xDE
    Instruction(202, "DEX", 1, "NonAddressing", 2),  \* 0xCA
    Instruction(136, "DEY", 1, "NonAddressing", 2),  \* 0x88
    Instruction(10, "ASL", 1, "NonAddressing", 2),  \* 0x0A
    Instruction(6, "ASL", 2, "ZeroPage", 5),  \* 0x06
    Instruction(22, "ASL", 2, "ZeroPageX", 6),  \* 0x16
    Instruction(14, "ASL", 3, "Absolute", 6),  \* 0x0E
    Instruction(30, "ASL", 3, "AbsoluteX", 7),  \* 0x1E
    Instruction(74, "LSR", 1, "NonAddressing", 2),  \* 0x4A
    Instruction(70, "LSR", 2, "ZeroPage", 5),  \* 0x46
    Instruction(86, "LSR", 2, "ZeroPageX", 6),  \* 0x56
    Instruction(78, "LSR", 3, "Absolute", 6),  \* 0x4E
    Instruction(94, "LSR", 3, "AbsoluteX", 7),  \* 0x5E
    Instruction(42, "ROL", 1, "NonAddressing", 2),  \* 0x2A
    Instruction(38, "ROL", 2, "ZeroPage", 5),  \* 0x26
    Instruction(54, "ROL", 2, "ZeroPageX", 6),  \* 0x36
    Instruction(46, "ROL", 3, "Absolute", 6),  \* 0x2E
    Instruction(62, "ROL", 3, "AbsoluteX", 7),  \* 0x3E
    Instruction(106, "ROR", 1, "NonAddressing", 2),  \* 0x6A
    Instruction(102, "ROR", 2, "ZeroPage", 5),  \* 0x66
    Instruction(118, "ROR", 2, "ZeroPageX", 6),  \* 0x76
    Instruction(110, "ROR", 3, "Absolute", 6),  \* 0x6E
    Instruction(126, "ROR", 3, "AbsoluteX", 7),  \* 0x7E
    Instruction(144, "BCC", 2, "NonAddressing", 2),  \* 0x90
    Instruction(176, "BCS", 2, "NonAddressing", 2),  \* 0xB0
    Instruction(240, "BEQ", 2, "NonAddressing", 2),  \* 0xF0
    Instruction(208, "BNE", 2, "NonAddressing", 2),  \* 0xD0
    Instruction(48, "BMI", 2, "NonAddressing", 2),  \* 0x30
    Instruction(16, "BPL", 2, "NonAddressing", 2),  \* 0x10
    Instruction(80, "BVC", 2, "NonAddressing", 2),  \* 0x50
    Instruction(112, "BVS", 2, "NonAddressing", 2),  \* 0x70
    Instruction(24, "CLC", 1, "NonAddressing", 2),  \* 0x18
    Instruction(56, "SEC", 1, "NonAddressing", 2),  \* 0x38
    Instruction(88, "CLI", 1, "NonAddressing", 2),  \* 0x58
    Instruction(120, "SEI", 1, "NonAddressing", 2),  \* 0x78
    Instruction(216, "CLD", 1, "NonAddressing", 2),  \* 0xD8
    Instruction(248, "SED", 1, "NonAddressing", 2),  \* 0xF8
    Instruction(184, "CLV", 1, "NonAddressing", 2)   \* 0xB8
  >>

\* CPU_INSTRUCTIONS_MAP: every table entry inserted in table order under its
\* code (a later insert under the same code replaces the earlier one)
CPU_INSTRUCTIONS_MAP ==
    LET codes == {CPU_INSTRUCTIONS[i].code : i \in DOMAIN CPU_INSTRUCTIONS}
    IN  [code \in codes |->
            CPU_INSTRUCTIONS[
                CHOOSE i \in DOMAIN CPU_INSTRUCTIONS :
                    /\ CPU_INSTRUCTIONS[i].code = code
                    /\ \A j \in DOMAIN CPU_INSTRUCTIONS :
                           CPU_INSTRUCTIONS[j].code = code => j <= i]]

-----------------------------------------------------------------------------
(* The handlers written inside the match of run_with_callback *)

jmp_absolute(c) ==
    LET target == mem_read_u16(c, c.pc)
    IN  IF target = PANIC THEN Panic(c) ELSE [c EXCEPT !.pc = target]

\* JMP (indirect) that always reads the high byte at operand + 1
jmp_indirect_NoPageBug(c) ==
    LET operand_addr == mem_read_u16(c, c.pc)
    IN  IF operand_addr = PANIC THEN Panic(c)
        ELSE LET target_addr == mem_read_u16(c, operand_addr)
             IN  IF target_addr = PANIC THEN Panic(c)
                 ELSE [c EXCEPT !.pc = target_addr]

jmp_indirect(c) ==
    LET operand_addr == mem_read_u16(c, c.pc)
    IN  IF operand_addr = PANIC THEN Panic(c)
        ELSE LET target_addr ==
                     IF BitAnd(operand_addr, 255) = 255
                     THEN LET lo == mem_read(c, operand_addr)
                              hi == mem_read(c, BitAnd(operand_addr, 65280))
                          IN  IF lo = PANIC \/ hi = PANIC THEN PANIC
                              ELSE BitOr(hi * 256, lo)
                     ELSE mem_read_u16(c, operand_addr)
             IN  IF target_addr = PANIC THEN Panic(c)
                 ELSE [c EXCEPT !.pc = target_addr]

jsr(c) ==
    LET ret == add_u16(c.pc, 1)
    IN  IF ret = PANIC THEN Panic(c)
        ELSE LET c1 == stack_push_u16(c, ret)
                 target == mem_read_u16(c1, c1.pc)
             IN  IF target = PANIC THEN Panic(c1)
                 ELSE [c1 EXCEPT !.pc = target]

\* RTS without the + 1
rts_NoIncrement(c) ==
    LET target == stack_pop_u16_value(c)
        c1 == stack_pop_u16_cpu(c)
    IN  [c1 EXCEPT !.pc = target]

rts(c) ==
    LET target == add_u16(stack_pop_u16_value(c), 1)
        c1 == stack_pop_u16_cpu(c)
    IN  IF target = PANIC THEN Panic(c1) ELSE [c1 EXCEPT !.pc = target]

\* rti adding 1 to the popped address, as the arm of RTS does
rti_LikeRts(c) ==
    LET c1 == [stack_pop_cpu(c) EXCEPT !.status = stack_pop_value(c)]
        c2 == set_flag(set_flag(c1, BREAK, FALSE), BREAK2, TRUE)
    IN  [stack_pop_u16_cpu(c2) EXCEPT !.pc = (stack_pop_u16_value(c2) + 1) % 65536]

rti(c) ==
    LET c1 == [stack_pop_cpu(c) EXCEPT !.status = stack_pop_value(c)]
        c2 == set_flag(set_flag(c1, BREAK, FALSE), BREAK2, TRUE)
    IN  [stack_pop_u16_cpu(c2) EXCEPT !.pc = stack_pop_u16_value(c2)]

asl_acc(c) ==
    LET value == c.acc
        c1 == set_flag(c, CARRY, BitAnd(value, 128) > 0)
        r == shl8(value)
    IN  [update_zero_and_negative_flags(c1, r) EXCEPT !.acc = r]

asl_mem(c, mode) ==
    LET addr == get_operand_address(c, mode)
        value == mem_read(c, addr)
    IN  IF value = PANIC THEN Panic(c)
        ELSE LET c1 == set_flag(c, CARRY, BitAnd(value, 128) > 0)
                 r == shl8(value)
             IN  mem_write(update_zero_and_negative_flags(c1, r), addr, r)

lsr_acc(c) ==
    LET value == c.acc
        c1 == set_flag(c, CARRY, BitAnd(value, 1) > 0)
        r == shr8(value)
    IN  [update_zero_and_negative_flags(c1, r) EXCEPT !.acc = r]

lsr_mem(c, mode) ==
    LET addr == get_operand_address(c, mode)
        value == mem_read(c, addr)
    IN  IF value = PANIC THEN Panic(c)
        ELSE LET c1 == set_flag(c, CARRY, BitAnd(value, 1) > 0)
                 r == shr8(value)
             IN  mem_write(update_zero_and_negative_flags(c1, r), addr, r)

\* ROL that shifts a zero into bit 0, as ASL does
rol_value_ZeroIn(c, value) == shl8(value)

rol_value(c, value) ==
    LET shifted == shl8(value)
    IN  IF get_flag(c, CARRY) THEN BitOr(shifted, 1) ELSE shifted

rol_acc(c) ==
    LET value == c.acc
        r == rol_value(c, value)
        c1 == set_flag(c, CARRY, BitAnd(value, 128) > 0)
    IN  [update_zero_and_negative_flags(c1, r) EXCEPT !.acc = r]

rol_mem(c, mode) ==
    LET addr == get_operand_address(c, mode)
        value == mem_read(c, addr)
    IN  IF value = PANIC THEN Panic(c)
        ELSE LET r == rol_value(c, value)
                 c1 == set_flag(c, CARRY, BitAnd(value, 128) > 0)
             IN  mem_write(update_zero_and_negative_flags(c1, r), addr, r)

\* ROR with the old carry entering at bit 0, as in ROL
ror_value_LowBit(c, value) ==
    LET shifted == shr8(value)
    IN  IF get_flag(c, CARRY) THEN BitOr(shifted, 1) ELSE shifted

ror_value(c, value) ==
    LET shifted == shr8(value)
    IN  IF get_flag(c, CARRY) THEN BitOr(shifted, 128) ELSE shifted

ror_acc(c) ==
    LET value == c.acc
        r == ror_value(c, value)
        c1 == set_flag(c, CARRY, BitAnd(value, 1) > 0)
    IN  [update_zero_and_negative_flags(c1, r) EXCEPT !.acc = r]

ror_mem(c, mode) ==
    LET addr == get_operand_address(c, mode)
        value == mem_read(c, addr)
    IN  IF value = PANIC THEN Panic(c)
        ELSE LET r == ror_value(c, value)
                 c1 == set_flag(c, CARRY, BitAnd(value, 1) > 0)
             IN  mem_write(update_zero_and_negative_flags(c1, r), addr, r)

-----------------------------------------------------------------------------
(* match opcode { ... } of run_with_callback *)

Dispatch(c, opcode, instruction) ==
    CASE opcode \in {169, 165, 181, 173, 189, 185, 161, 177} -> lda(c, instruction.mode)
      [] opcode \in {162, 166, 182, 174, 190} -> ldx(c, instruction.mode)
      [] opcode \in {160, 164, 180, 172, 188} -> ldy(c, instruction.mode)
      [] opcode \in {133, 141, 149, 157, 153, 129, 145} -> sta(c, instruction.mode)
      [] opcode \in {134, 150, 142} -> stx(c, instruction.mode)
      [] opcode \in {132, 148, 140} -> sty(c, instruction.mode)
      [] opcode \in {105, 101, 117, 109, 125, 121, 97, 113} -> adc(c, instruction.mode)
      [] opcode \in {233, 229, 245, 237, 253, 249, 225, 241} -> sbc(c, instruction.mode)
      [] opcode \in {201, 197, 213, 205, 221, 217, 193, 209} ->
            compare(c, instruction.mode, c.acc)
      [] opcode \in {224, 228, 236} -> compare(c, instruction.mode, c.index_x)
      [] opcode \in {192, 196, 204} -> compare(c, instruction.mode, c.index_y)
      [] opcode \in {41, 37, 53, 45, 61, 57, 33, 49} -> and(c, instruction.mode)
      [] opcode \in {73, 69, 85, 77, 93, 89, 65, 81} -> eor(c, instruction.mode)
      [] opcode \in {9, 5, 21, 13, 29, 25, 1, 17} -> ora(c, instruction.mode)
      [] opcode \in {36, 44} -> bit(c, instruction.mode)
      [] opcode \in {230, 238, 246, 254} -> inc(c, instruction.mode)
      [] opcode \in {198, 206, 214, 222} -> dec(c, instruction.mode)
      [] opcode = 232 -> inx(c)
      [] opcode = 200 -> iny(c)
      [] opcode = 202 -> dex(c)
      [] opcode = 136 -> dey(c)
      [] opcode = 72 -> pha(c)
      [] opcode = 104 -> pla(c)
      [] opcode = 8 -> php(c)
      [] opcode = 40 -> plp(c)
      [] opcode = 170 -> tax(c)
      [] opcode = 168 -> tay(c)
      [] opcode = 138 -> txa(c)
      [] opcode = 152 -> tya(c)
      [] opcode = 186 -> tsx(c)
      [] opcode = 154 -> txs(c)
      [] opcode = 144 -> branch(c, ~get_flag(c, CARRY))      \* BCC
      [] opcode = 176 -> branch(c, get_flag(c, CARRY))       \* BCS
      [] opcode = 240 -> branch(c, get_flag(c, ZERO))        \* BEQ
      [] opcode = 208 -> branch(c, ~get_flag(c, ZERO))       \* BNE
      [] opcode = 48 -> branch(c, get_flag(c, NEGATIVE))     \* BMI
      [] opcode = 16 -> branch(c, ~get_flag(c, NEGATIVE))    \* BPL
      [] opcode = 80 -> branch(c, ~get_flag(c, OVERFLOW))    \* BVC
      [] opcode = 112 -> branch(c, get_flag(c, OVERFLOW))    \* BVS
      [] opcode = 24 -> set_flag(c, CARRY, FALSE)              \* CLC
      [] opcode = 56 -> set_flag(c, CARRY, TRUE)               \* SEC
      [] opcode = 88 -> set_flag(c, INTERRUPT_DISABLE, FALSE)  \* CLI
      [] opcode = 120 -> set_flag(c, INTERRUPT_DISABLE, TRUE)  \* SEI
      [] opcode = 216 -> set_flag(c, DECIMAL_MODE, FALSE)      \* CLD
      [] opcode = 248 -> set_flag(c, DECIMAL_MODE, TRUE)       \* SED
      [] opcode = 184 -> set_flag(c, OVERFLOW, FALSE)          \* CLV
      [] opcode = 76 -> jmp_absolute(c)
      [] opcode = 108 -> jmp_indirect(c)
      [] opcode = 32 -> jsr(c)
      [] opcode = 96 -> rts(c)
      [] opcode = 10 -> asl_acc(c)
      [] opcode \in {6, 22, 14, 30} -> asl_mem(c, instruction.mode)
      [] opcode = 74 -> lsr_acc(c)
      [] opcode \in {70, 86, 78, 94} -> lsr_mem(c, instruction.mode)
      [] opcode = 64 -> rti(c)
      [] opcode = 42 -> rol_acc(c)
      [] opcode \in {38, 54, 46, 62} -> rol_mem(c, instruction.mode)
      [] opcode = 106 -> ror_acc(c)
      [] opcode \in {102, 118, 110, 126} -> ror_mem(c, instruction.mode)
      [] opcode = 234 -> c                                     \* NOP
      [] opcode = 0 -> [c EXCEPT !.ctl = "return"]             \* BRK
      [] OTHER -> Panic(c)                                     \* todo!()

\* the adjustment by the whole length: self.pc += instruction.len
AdjustPc_WholeLength(c, pc_state, instruction) ==
    IF pc_state = c.pc
    THEN LET npc == add_u16(c.pc, instruction.len)
         IN  IF npc = PANIC THEN Panic(c) ELSE [c EXCEPT !.pc = npc]
    ELSE c

\* if pc_state == self.pc { self.pc += (instruction.len - 1) as u16; }
AdjustPc(c, pc_state, instruction) ==
    IF pc_state = c.pc
    THEN LET npc == add_u16(c.pc, instruction.len - 1)
         IN  IF npc = PANIC THEN Panic(c) ELSE [c EXCEPT !.pc = npc]
    ELSE c

\* callback(self) moved before the length adjustment
FinishInstruction_CallbackFirst(c, pc_state, instruction) ==
    [cpu |-> AdjustPc(c, pc_state, instruction), called |-> TRUE, seen |-> c]

\* the tail of the loop body after the match: the length adjustment, then
\* callback(self).  `called` tells whether the callback ran, `seen` is the
\* CPU it was handed.
FinishInstruction(c, pc_state, instruction) ==
    LET c1 == AdjustPc(c, pc_state, instruction)
    IN  IF c1.ctl = "panic"
        THEN [cpu |-> c1, called |-> FALSE, seen |-> c1]
        ELSE [cpu |-> c1, called |-> TRUE, seen |-> c1]

\* the arm of BRK falling through like `{/* do nothing */}` instead of return
AfterMatch_BrkFallsThrough(c2, opcode, pc_state, instruction) ==
    IF c2.ctl = "panic"
    THEN [cpu |-> c2, called |-> FALSE, seen |-> c2, opcode |-> opcode]
    ELSE [opcode |-> opcode]
           @@ FinishInstruction([c2 EXCEPT !.ctl = "ok"], pc_state, instruction)

\* after the match: a panic or the return of BRK ends the iteration, any
\* other handler falls through to the adjustment and the callback
AfterMatch(c2, opcode, pc_state, instruction) ==
    IF c2.ctl # "ok"
    THEN [cpu |-> c2, called |-> FALSE, seen |-> c2, opcode |-> opcode]
    ELSE [opcode |-> opcode] @@ FinishInstruction(c2, pc_state, instruction)

\* a byte without table entry executed like NOP
Decode_UnknownAsNop(c1, opcode) ==
    IF opcode \notin DOMAIN CPU_INSTRUCTIONS_MAP
    THEN [opcode |-> opcode] @@ FinishInstruction(c1, c1.pc, CPU_INSTRUCTIONS_MAP[234])
    ELSE AfterMatch(Dispatch(c1, opcode, CPU_INSTRUCTIONS_MAP[opcode]),
                    opcode, c1.pc, CPU_INSTRUCTIONS_MAP[opcode])

\* opcodes.get(&opcode).expect("unknown opcode"), then the match; c1 is the
\* CPU after the fetch, so c1.pc is pc_state
Decode(c1, opcode) ==
    IF opcode \notin DOMAIN CPU_INSTRUCTIONS_MAP
    THEN [cpu |-> Panic(c1), called |-> FALSE, seen |-> c1, opcode |-> opcode]
    ELSE AfterMatch(Dispatch(c1, opcode, CPU_INSTRUCTIONS_MAP[opcode]),
                    opcode, c1.pc, CPU_INSTRUCTIONS_MAP[opcode])

\* the fetch: opcode = mem_read(pc); pc += 1
Fetch(c, opcode) ==
    IF opcode = PANIC
    THEN [cpu |-> Panic(c), called |-> FALSE, seen |-> c, opcode |-> PANIC]
    ELSE Decode([c EXCEPT !.pc = add_u16(c.pc, 1)], opcode)

\* one iteration of the loop of run_with_callback
RunIteration(c) == Fetch(c, mem_read(c, c.pc))

\* reset that leaves the stack pointer alone
reset_KeepsSp(c) ==
    LET c1 == [c EXCEPT !.acc = 0,
                        !.status = BitOr(INTERRUPT_DISABLE, BREAK2),
                        !.index_x = 0,
                        !.index_y = 0]
        v == mem_read_u16(c1, RESET_VECTOR)
    IN  IF v = PANIC THEN Panic(c1) ELSE [c1 EXCEPT !.pc = v]

\* pub fn reset
reset(c) ==
    LET c1 == [c EXCEPT !.acc = 0,
                        !.status = BitOr(INTERRUPT_DISABLE, BREAK2),
                        !.index_x = 0,
                        !.index_y = 0,
                        !.sp = STACK_RESET]
        v == mem_read_u16(c1, RESET_VECTOR)
    IN  IF v = PANIC THEN Panic(c1) ELSE [c1 EXCEPT !.pc = v]

\* self.memory[0x0600 .. (0x0600 + program.len())].copy_from_slice(&program[..])
RECURSIVE copy_from_slice(_, _, _, _)
copy_from_slice(m, base, program, i) ==
    IF i > Len(program) THEN m
    ELSE copy_from_slice(Store(m, base + i - 1, program[i]), base, program, i + 1)

\* load that copies the program and leaves the reset vector alone
load_NoVector(c, program) ==
    [c EXCEPT !.memory = copy_from_slice(c.memory, LOAD_BASE, program, 1)]

\* pub fn load: the slice range must lie inside the array
load(c, program) ==
    IF LOAD_BASE + Len(program) > MEM_LEN THEN Panic(c)
    ELSE mem_write_u16(
             [c EXCEPT !.memory = copy_from_slice(c.memory, LOAD_BASE, program, 1)],
             RESET_VECTOR, LOAD_BASE)

-----------------------------------------------------------------------------
(* State machine *)

\* bound on the callback invocations of one run
MaxCalls == 4

\* bound on the calls the host makes (mem_write, load, reset, run)
MaxHostCalls == 4

Self ==
    [acc |-> acc, status |-> status, index_x |-> index_x, index_y |-> index_y,
     sp |-> sp, pc |-> pc, memory |-> memory, ctl |-> "ok"]

\* the fields of the CPU after an operation that left the record c
Becomes(c) ==
    /\ acc' = c.acc
    /\ status' = c.status
    /\ index_x' = c.index_x
    /\ index_y' = c.index_y
    /\ sp' = c.sp
    /\ pc' = c.pc
    /\ memory' = c.memory

NoCall == [CPU_new EXCEPT !.ctl = "never"]

History(kind, opcode, arg) ==
    [kind |-> kind, opcode |-> opcode, arg |-> arg, pre |-> Self,
     calls |-> calls, seen |-> seen, before |-> last.kind]

\* programs handed to load
Programs ==
    { <<169, 5, 0>>,                 \* LDA #$05; BRK
      <<165, 16, 0>>,                \* LDA $10; BRK
      <<169, 80, 105, 80, 0>>,       \* LDA #$50; ADC #$50; BRK
      <<56, 72, 232, 0>>,            \* SEC; PHA; INX; BRK
      <<232, 2>>,                    \* INX; (no table entry)
      <<76, 0, 6>> }                 \* JMP $0600

\* addresses and bytes the host writes with mem_write before a run
HostAddrs == {16, 65533, 65535}
HostBytes == {85}

\* the CPU of cpu.rs owns its memory array: no Bus is constructed beside it
NoBus ==
    /\ cpu_vram = ZeroMemory
    /\ rom = [prg_rom |-> [len |-> 0, bytes |-> ZeroMemory]]
    /\ bus_phase = "absent"
    /\ bus_ops = 0
    /\ bus_last = [kind |-> "none"]

Init ==
    /\ NoBus
    /\ acc = CPU_new.acc
    /\ status = CPU_new.status
    /\ index_x = CPU_new.index_x
    /\ index_y = CPU_new.index_y
    /\ sp = CPU_new.sp
    /\ pc = CPU_new.pc
    /\ memory = CPU_new.memory
    /\ phase = "idle"
    /\ overflow_checks \in BOOLEAN
    /\ host_calls = 0
    /\ fetched = 0
    /\ calls = 0
    /\ seen = NoCall
    /\ last = [kind |-> "new", opcode |-> PANIC, arg |-> <<>>, pre |-> CPU_new,
               calls |-> 0, seen |-> NoCall, before |-> "new"]

\* the CPU after a call of the host that left the record c: a panic ends it
HostOutcome(c) ==
    /\ Becomes(c)
    /\ phase' = IF c.ctl = "panic" THEN "panicked" ELSE "idle"

\* the host calls mem_write(address, value)
HostWrite ==
    /\ phase = "idle"
    /\ host_calls < MaxHostCalls
    /\ host_calls' = host_calls + 1
    /\ \E address \in HostAddrs, value \in HostBytes :
          /\ HostOutcome(mem_write(Self, address, value))
          /\ last' = History("mem_write", PANIC, <<address, value>>)
    /\ UNCHANGED <<overflow_checks, fetched, calls, seen, busvars>>

\* the host calls load(program)
Load ==
    /\ phase = "idle"
    /\ host_calls < MaxHostCalls
    /\ host_calls' = host_calls + 1
    /\ \E program \in Programs :
          /\ HostOutcome(load(Self, program))
          /\ last' = History("load", PANIC, program)
    /\ UNCHANGED <<overflow_checks, fetched, calls, seen, busvars>>

\* the host calls reset()
Reset ==
    /\ phase = "idle"
    /\ host_calls < MaxHostCalls
    /\ host_calls' = host_calls + 1
    /\ HostOutcome(reset(Self))
    /\ last' = History("reset", PANIC, <<>>)
    /\ UNCHANGED <<overflow_checks, fetched, calls, seen, busvars>>

\* the host calls run() / run_with_callback(callback): the loop is entered
Run ==
    /\ phase = "idle"
    /\ host_calls < MaxHostCalls
    /\ host_calls' = host_calls + 1
    /\ phase' = "running"
    /\ fetched' = 0
    /\ calls' = 0
    /\ seen' = NoCall
    /\ last' = History("run", PANIC, <<>>)
    /\ UNCHANGED <<acc, status, index_x, index_y, sp, pc, memory, overflow_checks,
                   busvars>>

\* the state after an iteration of the loop that ended as r
StepOutcome(r) ==
    /\ Becomes(r.cpu)
    /\ phase' = CASE r.cpu.ctl = "panic" -> "panicked"
                  [] r.cpu.ctl = "return" -> "idle"
                  [] OTHER -> "running"
    /\ fetched' = IF r.opcode = PANIC THEN fetched ELSE fetched + 1
    /\ calls' = IF r.called THEN calls + 1 ELSE calls
    /\ seen' = IF r.called THEN r.seen ELSE seen
    /\ last' = History("step", r.opcode, <<>>)

\* one iteration of the loop: fetch, decode, execute, adjust pc, callback
Step ==
    /\ phase = "running"
    /\ calls < MaxCalls
    /\ StepOutcome(RunIteration(Self))
    /\ UNCHANGED <<overflow_checks, host_calls, busvars>>

Next == HostWrite \/ Load \/ Reset \/ Run \/ Step

Spec == Init /\ [][Next]_vars

-----------------------------------------------------------------------------
(* Single instructions: the loop of run_with_callback entered with an       *)
(* instruction of the program at pc and the registers an earlier part of    *)
(* the program left                                                         *)

\* where the instruction lies: 0x0600 (load), and the last bytes of memory
StepPcs == {1536, 65533, 65534}

\* its operand bytes: $0010, $0601 (the operand's own address when the opcode
\* is at 0x0600), $30FF
StepOperands == {<<16, 0>>, <<1, 6>>, <<255, 48>>}

StepAccs == {16, 128}
StepXs == {1, 16}
StepYs == {16, 255}
StepSps == {253, 0}
\* I|U, and I|U with N, V, Z, C set
StepStatuses == {36, 231}

\* a byte without table entry
UnknownOpcode == 2

\* data the program has in memory: zero page cells and pointers, the stack
\* page around the stack pointers, the page-crossing pointer at 0x30FF
StepData ==
    (0 :> 80) @@ (1 :> 2) @@ (16 :> 85) @@ (17 :> 2) @@ (18 :> 255)
      @@ (255 :> 128) @@ (254 :> 1) @@ (257 :> 231) @@ (258 :> 16) @@ (259 :> 6)
      @@ (510 :> 255) @@ (511 :> 5) @@ (12543 :> 128) @@ (12288 :> 80)
      @@ (12544 :> 64)

\* the bytes of an instruction stored at p, as far as they lie in the array
PutBytes(m, p, bytes) ==
    [a \in (DOMAIN m \ {p + i - 1 : i \in 1..Len(bytes)})
           \cup {p + i - 1 : i \in {k \in 1..Len(bytes) :
                                      bytes[k] # 0 /\ p + k - 1 < MEM_LEN}} |->
        IF a \in {p + i - 1 : i \in 1..Len(bytes)}
        THEN bytes[a - p + 1]
        ELSE m[a]]

StepCpu(opcode, p, b, a, x, y, st, s) ==
    [acc |-> a, status |-> st, index_x |-> x, index_y |-> y, sp |-> s, pc |-> p,
     memory |-> PutBytes(StepData, p, <<opcode, b[1], b[2]>>), ctl |-> "ok"]

BranchOpcodes == {144, 176, 240, 208, 48, 16, 80, 112}

\* the loop has just been entered on the CPU c, in a build of `builds`
Running(c, builds) ==
    /\ NoBus
    /\ acc = c.acc
    /\ status = c.status
    /\ index_x = c.index_x
    /\ index_y = c.index_y
    /\ sp = c.sp
    /\ pc = c.pc
    /\ memory = c.memory
    /\ phase = "running"
    /\ overflow_checks \in builds
    /\ host_calls = 0
    /\ fetched = 0
    /\ calls = 0
    /\ seen = NoCall
    /\ last = [kind |-> "run", opcode |-> PANIC, arg |-> <<>>, pre |-> c,
               calls |-> 0, seen |-> NoCall, before |-> "reset"]

\* every table opcode and a byte without table entry, with a few operands and
\* register values; every branch with every offset byte
InitStep ==
    \/ \E opcode \in DOMAIN CPU_INSTRUCTIONS_MAP \cup {UnknownOpcode},
          p \in StepPcs, b \in StepOperands, a \in StepAccs, x \in StepXs,
          y \in StepYs, st \in StepStatuses, s \in StepSps :
            Running(StepCpu(opcode, p, b, a, x, y, st, s), BOOLEAN)
    \/ \E opcode \in BranchOpcodes, p \in StepPcs, o \in 0..255,
          st \in StepStatuses :
            Running(StepCpu(opcode, p, <<o, 0>>, 16, 1, 16, st, 253), BOOLEAN)

NextStep == Step

SpecStep == InitStep /\ [][NextStep]_vars

-----------------------------------------------------------------------------
(* ADC and SBC on every pair of bytes: the loop entered at ADC #b or SBC #b  *)
(* with A = a and either carry.  The only u16 additions of these steps are  *)
(* pc += 1 at 0x0600 and at 0x0601, which overflow in no build, so one      *)
(* build stands for both.                                                   *)

\* bound on the instructions executed from each of these states
MaxAluSteps == 1

ADC_IMMEDIATE == 105
SBC_IMMEDIATE == 233

InitAlu ==
    \E opcode \in {ADC_IMMEDIATE, SBC_IMMEDIATE}, a \in 0..255, b \in 0..255,
       carry \in {0, CARRY} :
        Running([CPU_new EXCEPT
                    !.acc = a,
                    !.status = BitOr(CPU_new.status, carry),
                    !.pc = LOAD_BASE,
                    !.memory = PutBytes(ZeroMemory, LOAD_BASE, <<opcode, b>>)],
                {TRUE})

NextAlu == fetched < MaxAluSteps /\ Step

SpecAlu == InitAlu /\ [][NextAlu]_vars

-----------------------------------------------------------------------------
(* Properties of single instructions *)

\* a flag of a status byte
Flag(st, f) == (st \div f) % 2 = 1

\* the two's complement value of a byte
Signed(v) == IF v >= 128 THEN v - 256 ELSE v

\* the table entry of the opcode of the last step
LastEntry == CPU_INSTRUCTIONS_MAP[last.opcode]

\* the last step executed a table opcode to its end: no fault, no BRK
Completed ==
    /\ last.kind = "step"
    /\ phase = "running"
    /\ last.opcode \in DOMAIN CPU_INSTRUCTIONS_MAP

\* JMP, JMP (indirect), JSR, RTS, RTI, BRK
ControlOpcodes == {76, 108, 32, 96, 64, 0}

\* the 6502 condition of a branch opcode on a status byte
BranchCondition(opcode, st) ==
    CASE opcode = 144 -> ~Flag(st, 1)       \* BCC
      [] opcode = 176 -> Flag(st, 1)        \* BCS
      [] opcode = 240 -> Flag(st, 2)        \* BEQ
      [] opcode = 208 -> ~Flag(st, 2)       \* BNE
      [] opcode = 48 -> Flag(st, 128)       \* BMI
      [] opcode = 16 -> ~Flag(st, 128)      \* BPL
      [] opcode = 80 -> ~Flag(st, 64)       \* BVC
      [] opcode = 112 -> Flag(st, 64)       \* BVS

LastBranchTaken ==
    last.opcode \in BranchOpcodes /\ BranchCondition(last.opcode, last.pre.status)

\* C1: a completed step of a table opcode that is not a jump, JSR, RTS, RTI,
\* BRK or a taken branch, with opcode and operand bytes inside memory, ends
\* with PC = p + length of the table entry; a branch not taken ends at p + 2.
C1_PcAdvance ==
    (/\ Completed
     /\ last.opcode \notin ControlOpcodes
     /\ ~LastBranchTaken
     /\ last.pre.pc + LastEntry.len <= MEM_LEN) =>
        /\ pc = last.pre.pc + LastEntry.len
        /\ last.opcode \in BranchOpcodes => pc = last.pre.pc + 2

\* C1 witness: LDA abs,X (3 bytes) at 0x0600 has been executed
C1_Witness ==
    /\ Completed
    /\ last.opcode = 189
    /\ last.pre.pc = 1536
    /\ pc = 1539

\* C2: a branch at p with operand byte o at q = p + 1 ends with
\* PC = (q + 1 + signed(o)) mod 2^16 when its condition holds, for every o in
\* 0x00..0xFF (o = 0xFF gives q), and with PC = q + 1 when it does not hold.
C2_Branch ==
    (/\ Completed
     /\ last.opcode \in BranchOpcodes
     /\ last.pre.pc + 2 <= MEM_LEN) =>
        LET q == last.pre.pc + 1
            o == Load8(last.pre.memory, q)
        IN  pc = IF LastBranchTaken
                 THEN (q + 1 + Signed(o) + 65536) % 65536
                 ELSE q + 1

\* C3: JMP absolute and JSR end with PC equal to the 16-bit little-endian
\* operand, for every operand value, the operand's own address included.
C3_JumpTarget ==
    (/\ Completed
     /\ last.opcode \in {76, 32}) =>
        pc = Load8(last.pre.memory, last.pre.pc + 1)
               + 256 * Load8(last.pre.memory, last.pre.pc + 2)

\* the operand byte the last step's addressing mode resolves to
LastOperand ==
    operand([last.pre EXCEPT !.pc = last.pre.pc + 1], LastEntry.mode)

\* C4: CMP, CPX, CPY with register r and operand M give C = 1 iff r >= M,
\* Z = 1 iff r = M, N = bit 7 of (r - M) mod 256, and leave the register, V
\* and memory as they were.
C4_Compare ==
    (/\ Completed
     /\ LastEntry.mnemonic \in {"CMP", "CPX", "CPY"}) =>
        LET r == CASE LastEntry.mnemonic = "CMP" -> last.pre.acc
                   [] LastEntry.mnemonic = "CPX" -> last.pre.index_x
                   [] LastEntry.mnemonic = "CPY" -> last.pre.index_y
            M == LastOperand
        IN  /\ Flag(status, 1) <=> (r >= M)
            /\ Flag(status, 2) <=> (r = M)
            /\ Flag(status, 128) <=> ((r - M + 256) % 256 >= 128)
            /\ Flag(status, 64) <=> Flag(last.pre.status, 64)
            /\ acc = last.pre.acc
            /\ index_x = last.pre.index_x
            /\ index_y = last.pre.index_y
            /\ memory = last.pre.memory

\* the last step was ADC #b or SBC #b at p: its A, b and carry-in
AluA == last.pre.acc
AluB == Load8(last.pre.memory, last.pre.pc + 1)
AluC == IF Flag(last.pre.status, 1) THEN 1 ELSE 0

\* bit 7 of the exclusive or of two bytes: their signs differ
SignsDiffer(u, v) == (u >= 128) # (v >= 128)

\* the flags C, V, Z, N a sum leaves: sum is the 9-bit sum of a, b and carry
SumFlags(a, b, sum) ==
    /\ Flag(status, 1) <=> (sum > 255)
    /\ Flag(status, 64) <=> (SignsDiffer(a, sum % 256) /\ SignsDiffer(b, sum % 256))
    /\ Flag(status, 2) <=> (sum % 256 = 0)
    /\ Flag(status, 128) <=> (sum % 256 >= 128)

\* C5: ADC with A = a, operand b and carry-in c leaves A = (a + b + c) mod 256,
\* C = 1 iff a + b + c > 255, V = 1 iff ((a XOR result) AND (b XOR result)
\* AND 0x80) # 0, Z = 1 iff result = 0, N = bit 7 of result; 0x50 + 0x50 with
\* C = 0 gives A = 0xA0, V = 1, N = 1, C = 0.
C5_Adc ==
    (Completed /\ last.opcode = ADC_IMMEDIATE) =>
        /\ acc = (AluA + AluB + AluC) % 256
        /\ SumFlags(AluA, AluB, AluA + AluB + AluC)
        /\ Flag(status, 64) <=>
              (Signed(AluA) + Signed(AluB) + AluC \notin (0 - 128)..127)
        /\ (AluA = 80 /\ AluB = 80 /\ AluC = 0) =>
              /\ acc = 160
              /\ Flag(status, 64) /\ Flag(status, 128) /\ ~Flag(status, 1)

\* C5 witness: 0x50 + 0x50 with C = 0 has been added
C5_Witness ==
    /\ Completed /\ last.opcode = ADC_IMMEDIATE
    /\ AluA = 80 /\ AluB = 80 /\ AluC = 0
    /\ acc = 160

\* C6: SBC with operand M gives the A, C, V, Z, N of ADC with operand
\* M XOR 0xFF from the same A and carry; A becomes (A - M - (1 - c)) mod 256
\* and C = 1 iff no borrow occurred.
C6_Sbc ==
    (Completed /\ last.opcode = SBC_IMMEDIATE) =>
        /\ acc = (AluA + (255 - AluB) + AluC) % 256
        /\ SumFlags(AluA, 255 - AluB, AluA + (255 - AluB) + AluC)
        /\ acc = (AluA - AluB - (1 - AluC) + 256) % 256
        /\ Flag(status, 1) <=> (AluA - AluB - (1 - AluC) >= 0)

\* C6 witness: 0x10 - 0x20 with C = 1 has borrowed
C6_Witness ==
    /\ Completed /\ last.opcode = SBC_IMMEDIATE
    /\ AluA = 16 /\ AluB = 32 /\ AluC = 1
    /\ acc = 240 /\ ~Flag(status, 1)

-----------------------------------------------------------------------------
(* Properties of the host interface: mem_write, reset, load, run *)

\* every address whose byte differs between two memories
Differing(m1, m2) ==
    {a \in (DOMAIN m1) \cup (DOMAIN m2) : Load8(m1, a) # Load8(m2, a)}

RegistersOf(c) == <<c.acc, c.status, c.index_x, c.index_y, c.sp, c.pc>>

\* C7: the standalone memory is a flat 64 KiB space: mem_write(a, v) never
\* faults for a in 0x0000..0xFFFF, mem_read(a) then returns v, and no other
\* address changes.
C7_FlatMemory ==
    last.kind = "mem_write" =>
        /\ phase # "panicked"
        /\ mem_read(Self, last.arg[1]) = last.arg[2]
        /\ Differing(memory, last.pre.memory) \subseteq {last.arg[1]}

\* C8: reset() from any CPU state leaves A = X = Y = 0, status = 0x24,
\* SP = 0xFD, PC = mem[0xFFFC] + 256 * mem[0xFFFD], and changes no memory.
C8_Reset ==
    last.kind = "reset" =>
        /\ phase = "idle"
        /\ acc = 0 /\ index_x = 0 /\ index_y = 0
        /\ status = 36
        /\ sp = 253
        /\ pc = Load8(last.pre.memory, 65532) + 256 * Load8(last.pre.memory, 65533)
        /\ memory = last.pre.memory

\* C8 witness: a reset of a CPU whose registers a run has changed and whose
\* reset vector is not zero
C8_Witness ==
    /\ last.kind = "reset"
    /\ last.pre.index_x # 0 /\ last.pre.sp # 253 /\ last.pre.status # 36
    /\ last.pre.pc # pc
    /\ pc = 1536

\* C9: load(program) copies the program to 0x0600.. in order, stores 0x0600
\* little-endian at 0xFFFC/0xFFFD, changes no other byte and no register;
\* load then reset gives PC = 0x0600; a byte written before the load is the
\* byte the loaded program reads.
C9_Load ==
    /\ last.kind = "load" =>
          LET program == last.arg
              range == {LOAD_BASE + i - 1 : i \in 1..Len(program)}
          IN  /\ phase = "idle"
              /\ \A i \in 1..Len(program) :
                     Load8(memory, LOAD_BASE + i - 1) = program[i]
              /\ Load8(memory, 65532) = 0 /\ Load8(memory, 65533) = 6
              /\ Differing(memory, last.pre.memory) \subseteq
                     range \cup {65532, 65533}
              /\ RegistersOf(Self) = RegistersOf(last.pre)
    /\ (last.kind = "reset" /\ last.before = "load") => pc = 1536
    /\ (last.kind = "step" /\ last.opcode = 165 /\ Load8(last.pre.memory, last.pre.pc + 1) = 16
           /\ phase = "running") =>
          acc = Load8(last.pre.memory, 16)

\* C9 witness: a program loaded over another one, after the host wrote 0x10
C9_Witness ==
    /\ last.kind = "load"
    /\ Load8(memory, 16) = 85
    /\ Load8(last.pre.memory, 1536) # Load8(memory, 1536)
    /\ Load8(last.pre.memory, 65533) = 6

\* C10: the callback runs exactly once after each completed instruction, on
\* the CPU with all effects of the instruction including the length
\* adjustment; not for a step that faults, not for the BRK that ends the run;
\* so the calls of a run are the instructions it executed before BRK.
C10_Callback ==
    /\ (last.kind = "step" /\ phase = "running") =>
          /\ calls = last.calls + 1
          /\ seen = Self
    /\ (last.kind = "step" /\ phase # "running") =>
          /\ calls = last.calls
          /\ seen = last.seen
    /\ (last.kind = "step" /\ phase = "idle") =>
          /\ last.opcode = 0
          /\ calls = fetched - 1

\* C10 witness: a run that ended at BRK after three instructions
C10_Witness ==
    /\ last.kind = "step" /\ phase = "idle" /\ last.opcode = 0
    /\ calls = 3
    /\ seen.index_x = 1 /\ seen.pc = last.pre.pc

-----------------------------------------------------------------------------
(* Properties of run_with_callback as a whole *)

\* the registers of the CPU now
Registers == RegistersOf(Self)

\* C11: run / run_with_callback returns exactly when the opcode fetched is
\* 0x00 (BRK), on the first one fetched; BRK changes no register, flag or
\* memory byte, pushes nothing, calls no callback and leaves PC at the
\* address of the BRK + 1, so the registers after run are those the
\* instruction before BRK left.
C11_BrkReturns ==
    last.kind = "step" =>
        /\ phase = "idle" <=> last.opcode = 0
        /\ last.opcode = 0 =>
              /\ Registers = [RegistersOf(last.pre) EXCEPT ![6] = last.pre.pc + 1]
              /\ memory = last.pre.memory
              /\ calls = last.calls
              /\ seen = last.seen
              /\ last.calls > 0 => RegistersOf(seen) = RegistersOf(last.pre)

\* C11 witness: run has returned at the BRK fetched after LDA #$10 at 0x0600
C11_Witness ==
    /\ last.kind = "step"
    /\ last.opcode = 0
    /\ phase = "idle"
    /\ last.before = "step"
    /\ last.calls = 1
    /\ last.pre.pc = 1538
    /\ Load8(memory, 1536) = 169
    /\ acc = 16
    /\ pc = 1539

-----------------------------------------------------------------------------
(* Stack programs: the loop of run_with_callback entered at 0x0600 on        *)
(* programs of pushes, pops, JSR and RTS.  X holds the stack pointer the     *)
(* program starts with, as TSX leaves it; none of these programs writes X.   *)

\* bound on the opcodes fetched from each of these programs
MaxStackSteps == 257

OP_PHA == 72
OP_PLA == 104
OP_PHP == 8
OP_PLP == 40
OP_RTI == 64
OP_JSR == 32
OP_RTS == 96

\* the number of 16-bit return addresses the stack page holds
StackPageDepth == STACK \div 2

Repeat(opcode, n) == [i \in 1..n |-> opcode]

PushPop == <<OP_PHA, OP_PLA>>
FlagsRoundTrip == <<OP_PHA, OP_PLP, OP_PHP, OP_PLA>>
ReturnFromInterrupt == <<OP_PHA, OP_PHA, OP_PHA, OP_RTI>>
Pushes == Repeat(OP_PHA, STACK)
Pops == Repeat(OP_PLA, STACK)

\* the address of the subroutine of level k
Level(k) == LOAD_BASE + 4 * k

\* d nested calls: level 0 is JSR Level(1); BRK, level k is
\* JSR Level(k + 1); RTS, and level d is RTS
Nested(d) ==
    [i \in 1..(4 * d + 1) |->
        LET k == (i - 1) \div 4
            r == (i - 1) % 4
        IN  CASE k = d -> OP_RTS
              [] r = 0 -> OP_JSR
              [] r = 1 -> Level(k + 1) % 256
              [] r = 2 -> Level(k + 1) \div 256
              [] OTHER -> IF k = 0 THEN 0 ELSE OP_RTS]

\* stack pointers the programs start with, bytes they push
StackSps == {253, 0, 1, 255}
StackBytes == {0, 85, 128, 255}

\* bytes the stack page holds before the program runs
StackData == (256 :> 51) @@ (257 :> 231) @@ (510 :> 128) @@ (511 :> 5)

StackCpu(program, a, s) ==
    [CPU_new EXCEPT !.acc = a, !.index_x = s, !.sp = s, !.pc = LOAD_BASE,
                    !.memory = PutBytes(StackData, LOAD_BASE, program)]

InitStack ==
    \/ \E program \in {PushPop, FlagsRoundTrip, ReturnFromInterrupt},
          a \in 0..255, s \in StackSps :
            Running(StackCpu(program, a, s), BOOLEAN)
    \/ \E a \in StackBytes, s \in 0..255 :
            Running(StackCpu(PushPop, a, s), BOOLEAN)
    \/ \E program \in {Pushes, Pops}, a \in StackBytes, s \in StackSps :
            Running(StackCpu(program, a, s), BOOLEAN)
    \/ \E d \in 1..StackPageDepth, s \in {STACK_RESET, 0} :
            Running(StackCpu(Nested(d), 0, s), BOOLEAN)
    \/ \E opcode \in DOMAIN CPU_INSTRUCTIONS_MAP :
            Running(StackCpu(<<opcode, 16, 0>>, 128, STACK_RESET), BOOLEAN)

\* one iteration of the loop, as Step, in a run of up to MaxStackSteps opcodes
StackStep ==
    /\ phase = "running"
    /\ fetched < MaxStackSteps
    /\ StepOutcome(RunIteration(Self))
    /\ UNCHANGED <<overflow_checks, host_calls, busvars>>

NextStack == StackStep

SpecStack == InitStack /\ [][NextStack]_vars

-----------------------------------------------------------------------------
(* Properties of the stack *)

\* the program stored at 0x0600
ProgramIs(program) ==
    \A i \in 1..Len(program) : Load8(memory, LOAD_BASE + i - 1) = program[i]

\* C12: at every instruction boundary (the callback runs, or run returns)
\* of a run that starts with the status reset leaves, the in-CPU status has
\* U (0x20) = 1 and B (0x10) = 0, also after PLP and RTI popped any byte;
\* PHP pushes a byte with B = 1 and U = 1 and leaves the status as it was.
C12_StatusBits ==
    /\ phase \in {"idle", "running"} =>
          Flag(status, BREAK2) /\ ~Flag(status, BREAK)
    /\ calls > 0 => Flag(seen.status, BREAK2) /\ ~Flag(seen.status, BREAK)
    /\ (Completed /\ last.opcode = OP_PHP) =>
          /\ Load8(memory, STACK + last.pre.sp)
               = BitOr(last.pre.status, BREAK + BREAK2)
          /\ status = last.pre.status

\* C12 witness: PLP has popped 0x10 (B = 1, U = 0) and the status is 0x20
C12_Witness ==
    /\ Completed
    /\ last.opcode = OP_PLP
    /\ Load8(last.pre.memory, STACK + sp) = BREAK
    /\ status = BREAK2

\* C13: a push writes the byte at 0x0100 + SP and then sets SP to
\* (SP - 1) mod 256, a pop sets SP to (SP + 1) mod 256 and then reads
\* 0x0100 + SP; for every SP the access stays in 0x0100..0x01FF; 256 pushes
\* bring SP back to where it started; pops from any SP (0xFD among them) step
\* through SP + 1, SP + 2, ... mod 256 without a fault; a push followed at
\* once by a pop returns the pushed byte and restores SP.
C13_Stack ==
    /\ (last.kind = "step" /\ last.opcode = OP_PHA) =>
          /\ phase = "running"
          /\ memory = Store(last.pre.memory, STACK + last.pre.sp, last.pre.acc)
          /\ STACK + last.pre.sp \in 256..511
          /\ sp = (last.pre.sp + 255) % 256
    /\ (last.kind = "step" /\ last.opcode = OP_PLA) =>
          /\ phase = "running"
          /\ sp = (last.pre.sp + 1) % 256
          /\ STACK + sp \in 256..511
          /\ acc = Load8(last.pre.memory, STACK + sp)
          /\ memory = last.pre.memory
    /\ (ProgramIs(Pushes) /\ fetched \in 1..STACK) =>
          /\ last.opcode = OP_PHA
          /\ sp = (index_x + STACK - fetched) % 256
          /\ fetched = STACK => sp = index_x
    /\ (ProgramIs(Pops) /\ fetched \in 1..STACK) =>
          /\ last.opcode = OP_PLA
          /\ phase = "running"
          /\ sp = (index_x + fetched) % 256
    /\ (ProgramIs(PushPop) /\ fetched = 2) =>
          /\ last.opcode = OP_PLA
          /\ acc = last.pre.acc
          /\ acc = Load8(memory, STACK + index_x)
          /\ sp = index_x

\* C13 witness: the 256th PHA of 256 has brought SP back to 0xFD
C13_Witness ==
    /\ ProgramIs(Pushes)
    /\ fetched = STACK
    /\ last.opcode = OP_PHA
    /\ index_x = STACK_RESET
    /\ sp = STACK_RESET
    /\ Load8(memory, STACK) = 85
    /\ Load8(memory, STACK + 255) = 85

\* the program of nested calls is stored at 0x0600
NestedProgram ==
    /\ Load8(memory, LOAD_BASE) = OP_JSR
    /\ Load8(memory, LOAD_BASE + 1) = Level(1) % 256
    /\ Load8(memory, LOAD_BASE + 2) = Level(1) \div 256

\* the level of the subroutine an address lies in
LevelOf(address) == (address - LOAD_BASE) \div 4

\* C14: JSR with its opcode at j pushes j + 2, high byte at 0x0100 + SP and
\* low byte one below (at 0x0100 + SP - 1 when SP > 0), and lowers SP by 2;
\* the RTS that pops these two bytes ends with PC = j + 3 and with SP as it
\* was before the JSR, at every nesting depth the stack page holds.
C14_JsrRts ==
    /\ (Completed /\ last.opcode = OP_JSR) =>
          LET j == last.pre.pc
          IN  /\ memory = Store(Store(last.pre.memory, STACK + last.pre.sp,
                                      (j + 2) \div 256),
                                STACK + ((last.pre.sp + 255) % 256), (j + 2) % 256)
              /\ last.pre.sp > 0 =>
                    Load8(memory, STACK + last.pre.sp - 1) = (j + 2) % 256
              /\ sp = (last.pre.sp + 254) % 256
              /\ NestedProgram =>
                    last.pre.sp = (index_x + 2 * (STACK - LevelOf(j))) % 256
    /\ (Completed /\ last.opcode = OP_RTS) =>
          /\ pc = Load8(last.pre.memory, STACK + ((last.pre.sp + 1) % 256))
                   + 256 * Load8(last.pre.memory, STACK + ((last.pre.sp + 2) % 256))
                   + 1
          /\ sp = (last.pre.sp + 2) % 256
          /\ memory = last.pre.memory
          /\ NestedProgram =>
                LET j == Level(LevelOf(last.pre.pc) - 1)
                IN  /\ Load8(memory, j) = OP_JSR
                    /\ pc = j + 3
                    /\ sp = (index_x + 2 * (STACK - LevelOf(j))) % 256
    /\ (NestedProgram /\ phase = "idle") =>
          /\ last.pre.pc = Level(0) + 3
          /\ sp = index_x

\* C14 witness: the outermost RTS of 128 nested calls has returned to 0x0603
C14_Witness ==
    /\ NestedProgram
    /\ Load8(memory, Level(StackPageDepth)) = OP_RTS
    /\ Completed
    /\ last.opcode = OP_RTS
    /\ fetched = 2 * StackPageDepth
    /\ pc = Level(0) + 3
    /\ sp = index_x

-----------------------------------------------------------------------------
(* Properties of JMP (indirect) *)

OP_JMP_INDIRECT == 108

\* C15: JMP (indirect) with operand w takes the low byte of its target from
\* mem[w] and the high byte from mem[w AND 0xFF00] when w AND 0xFF = 0xFF and
\* from mem[w + 1] otherwise, and ends with PC = target whenever the target
\* is not the address of the operand; with mem[0x30FF] = 0x80,
\* mem[0x3000] = 0x50, mem[0x3100] = 0x40, JMP ($30FF) ends at 0x5080.
C15_JmpIndirect ==
    (Completed /\ last.opcode = OP_JMP_INDIRECT) =>
        LET q == last.pre.pc + 1
            w == Load8(last.pre.memory, q) + 256 * Load8(last.pre.memory, q + 1)
            lo == Load8(last.pre.memory, w)
            hi == Load8(last.pre.memory,
                        IF w % 256 = 255 THEN (w \div 256) * 256 ELSE w + 1)
            target == lo + 256 * hi
        IN  /\ target # q => pc = target
            /\ (/\ w = 12543
                 /\ Load8(last.pre.memory, 12543) = 128
                 /\ Load8(last.pre.memory, 12288) = 80
                 /\ Load8(last.pre.memory, 12544) = 64) => pc = 20608
            /\ memory = last.pre.memory
            /\ sp = last.pre.sp

\* C15 witness: JMP ($30FF) at 0x0600 has ended at 0x5080
C15_Witness ==
    /\ Completed
    /\ last.opcode = OP_JMP_INDIRECT
    /\ last.pre.pc = LOAD_BASE
    /\ Load8(last.pre.memory, LOAD_BASE + 1) = 255
    /\ Load8(last.pre.memory, LOAD_BASE + 2) = 48
    /\ Load8(last.pre.memory, 12543) = 128
    /\ Load8(last.pre.memory, 12288) = 80
    /\ Load8(last.pre.memory, 12544) = 64
    /\ pc = 20608

-----------------------------------------------------------------------------
(* Instructions that set Z and N: the loop entered at each of their opcodes  *)
(* at 0x0600, with the byte v in the cell the addressing mode resolves to    *)
(* and on top of the stack.  pc stays in 0x0600..0x0603, where no u16        *)
(* addition overflows, so one build stands for both.                         *)

\* bound on the instructions executed from each of these states
MaxFlagSteps == 1

FlagMnemonics ==
    {"LDA", "LDX", "LDY", "TAX", "TAY", "TXA", "TYA", "TSX", "PLA",
     "AND", "EOR", "ORA", "ADC", "SBC", "CMP", "CPX", "CPY",
     "INC", "DEC", "INX", "INY", "DEX", "DEY", "ASL", "LSR", "ROL", "ROR"}

FlagOpcodes ==
    {CPU_INSTRUCTIONS[i].code : i \in {k \in DOMAIN CPU_INSTRUCTIONS :
                                         CPU_INSTRUCTIONS[k].mnemonic \in FlagMnemonics}}

\* register and memory bytes: zero, positive, negative
FlagBytes == {0, 1, 5, 128, 255}

\* the CPU with the instruction at 0x0600, before its operand cell is filled;
\* X, Y and SP are given the same byte
FlagCpu(opcode, a, x, st, s) ==
    [acc |-> a, status |-> st, index_x |-> x, index_y |-> x, sp |-> s,
     pc |-> LOAD_BASE,
     memory |-> PutBytes(StepData, LOAD_BASE, <<opcode, 16, 2>>), ctl |-> "ok"]

\* v stored in the cell the instruction's mode resolves to, and in the cell
\* a pop reads
WithOperand(c, opcode, v) ==
    LET address == get_operand_address([c EXCEPT !.pc = c.pc + 1],
                                       CPU_INSTRUCTIONS_MAP[opcode].mode)
        m == Store(c.memory, STACK + wrapping_add8(c.sp, 1), v)
    IN  [c EXCEPT !.memory = IF address \in 0..(MEM_LEN - 1)
                             THEN Store(m, address, v) ELSE m]

InitFlags ==
    \E opcode \in FlagOpcodes, a \in FlagBytes, x \in FlagBytes, v \in FlagBytes,
       carry \in {0, CARRY} :
        \E c \in {WithOperand(FlagCpu(opcode, a, x, BitOr(CPU_new.status, carry), x),
                              opcode, v)} :
            Running(c, {TRUE})

NextFlags == fetched < MaxFlagSteps /\ Step

SpecFlags == InitFlags /\ [][NextFlags]_vars

\* the address the last step's addressing mode resolves to
LastAddress ==
    get_operand_address([last.pre EXCEPT !.pc = last.pre.pc + 1], LastEntry.mode)

\* the byte the last step produced: the register or memory cell it wrote,
\* (register - operand) mod 256 for a compare
ResultByte ==
    LET m == LastEntry.mnemonic
    IN  CASE m \in {"LDA", "TXA", "TYA", "PLA", "AND", "EOR", "ORA", "ADC", "SBC"} ->
               acc
          [] m \in {"LDX", "TAX", "TSX", "INX", "DEX"} -> index_x
          [] m \in {"LDY", "TAY", "INY", "DEY"} -> index_y
          [] m = "CMP" -> (last.pre.acc - LastOperand + 256) % 256
          [] m = "CPX" -> (last.pre.index_x - LastOperand + 256) % 256
          [] m = "CPY" -> (last.pre.index_y - LastOperand + 256) % 256
          [] m \in {"INC", "DEC", "ASL", "LSR", "ROL", "ROR"} ->
               IF LastEntry.mode = "NonAddressing" THEN acc
               ELSE Load8(memory, LastAddress)

\* C16: after LDA/LDX/LDY, TAX/TAY/TXA/TYA/TSX, PLA, AND/EOR/ORA, ADC/SBC,
\* CMP/CPX/CPY, INC/DEC/INX/INY/DEX/DEY and ASL/LSR/ROL/ROR, Z = 1 iff the
\* result byte is 0 and N = 1 iff its bit 7 is 1, so Z and N are never both
\* set; LDA #$05 gives Z = 0 and N = 0, LDA #$00 gives Z = 1.
C16_ZeroNegative ==
    (Completed /\ LastEntry.mnemonic \in FlagMnemonics) =>
        /\ Flag(status, ZERO) <=> ResultByte = 0
        /\ Flag(status, NEGATIVE) <=> ResultByte >= 128
        /\ ~(Flag(status, ZERO) /\ Flag(status, NEGATIVE))
        /\ (last.opcode = 169 /\ LastOperand = 5) =>
              ~Flag(status, ZERO) /\ ~Flag(status, NEGATIVE)
        /\ (last.opcode = 169 /\ LastOperand = 0) => Flag(status, ZERO)

\* C16 witness: LDA #$00 at 0x0600 has set Z and cleared N
C16_Witness ==
    /\ Completed
    /\ last.opcode = 169
    /\ Load8(last.pre.memory, LOAD_BASE + 1) = 0
    /\ last.pre.acc = 128
    /\ acc = 0
    /\ Flag(status, ZERO)
    /\ ~Flag(status, NEGATIVE)

-----------------------------------------------------------------------------
(* The Bus, bus.rs.  A Bus is the record of its fields cpu_vram and rom,     *)
(* with `ctl` telling how the last method ended.  cpu_vram is kept sparse    *)
(* like the memory of the CPU.  The PRG-ROM of the cartridge, a Vec<u8>, is  *)
(* the record of its length and its non-zero bytes.                          *)

RAM == 0
RAM_MIRRORS_END == 8191
PPU_REGISTERS == 8192
PPU_MIRRORS_END == 16383

\* 0x8000, the first address of the PRG-ROM window
PRG_BASE == 32768

\* 0x4000, the length of a PRG-ROM of one bank
PRG_BANK == 16384

\* pub fn new(rom: Rom)
Bus_new(r) == [cpu_vram |-> ZeroMemory, rom |-> r, ctl |-> "ok"]

\* read_rpg_rom that never mirrors
read_rpg_rom_NoMirror(bus, addr) ==
    LET a1 == addr - PRG_BASE
    IN  IF a1 >= bus.rom.prg_rom.len THEN PANIC
        ELSE Load8(bus.rom.prg_rom.bytes, a1)

\* fn read_rpg_rom: the index past the end of the Vec panics
read_rpg_rom(bus, addr) ==
    LET a1 == addr - PRG_BASE
        a2 == IF bus.rom.prg_rom.len = PRG_BANK /\ a1 >= PRG_BANK
              THEN a1 % PRG_BANK
              ELSE a1
    IN  IF a2 >= bus.rom.prg_rom.len THEN PANIC
        ELSE Load8(bus.rom.prg_rom.bytes, a2)

\* mem_read that answers 0 in the PPU window instead of todo!()
Bus_mem_read_PpuIgnored(bus, address) ==
    CASE address \in RAM..RAM_MIRRORS_END ->
            Load8(bus.cpu_vram, BitAnd(address, 2047))
      [] address \in PRG_BASE..65535 -> read_rpg_rom(bus, address)
      [] OTHER -> 0

\* impl Memory for Bus: fn mem_read
Bus_mem_read(bus, address) ==
    CASE address \in RAM..RAM_MIRRORS_END ->
            Load8(bus.cpu_vram, BitAnd(address, 2047))
      [] address \in PPU_REGISTERS..PPU_MIRRORS_END -> PANIC
      [] address \in PRG_BASE..65535 -> read_rpg_rom(bus, address)
      [] OTHER -> 0

\* mem_write that mirrors with the mask 0b01111111111
Bus_mem_write_ShortMask(bus, address, value) ==
    CASE address \in RAM..RAM_MIRRORS_END ->
            [bus EXCEPT !.cpu_vram = Store(@, BitAnd(address, 1023), value)]
      [] address \in PPU_REGISTERS..PPU_MIRRORS_END -> Panic(bus)
      [] address \in PRG_BASE..65535 -> Panic(bus)
      [] OTHER -> bus

\* mem_write without the arm of 0x8000..=0xFFFF: the write is ignored
Bus_mem_write_RomIgnored(bus, address, value) ==
    CASE address \in RAM..RAM_MIRRORS_END ->
            [bus EXCEPT !.cpu_vram = Store(@, BitAnd(address, 2047), value)]
      [] address \in PPU_REGISTERS..PPU_MIRRORS_END -> Panic(bus)
      [] OTHER -> bus

\* impl Memory for Bus: fn mem_write
Bus_mem_write(bus, address, value) ==
    CASE address \in RAM..RAM_MIRRORS_END ->
            [bus EXCEPT !.cpu_vram = Store(@, BitAnd(address, 2047), value)]
      [] address \in PPU_REGISTERS..PPU_MIRRORS_END -> Panic(bus)
      [] address \in PRG_BASE..65535 -> Panic(bus)
      [] OTHER -> bus

\* trait Memory: fn mem_write_u16, on the Bus
Bus_mem_write_u16(bus, pos, data) ==
    LET hi == data \div 256
        lo == BitAnd(data, 255)
        b1 == Bus_mem_write(bus, pos, lo)
        next == add_u16(pos, 1)
    IN  IF b1.ctl = "panic" THEN b1
        ELSE IF next = PANIC THEN Panic(b1)
        ELSE Bus_mem_write(b1, next, hi)

-----------------------------------------------------------------------------
(* Accesses of the Bus: sequences of reads and writes at the borders of the  *)
(* windows, and single accesses of a new Bus at every address                *)

\* bound on the accesses of a sequence
MaxBusOps == 3

\* cartridges of one bank (16 KiB) and of two banks (32 KiB): bytes at the
\* ends of the banks
Roms ==
    { [prg_rom |-> [len |-> PRG_BANK,
                    bytes |-> (0 :> 17) @@ (1 :> 18) @@ (8192 :> 19)
                                @@ (16383 :> 20)]],
      [prg_rom |-> [len |-> 2 * PRG_BANK,
                    bytes |-> (0 :> 33) @@ (1 :> 34) @@ (8192 :> 35)
                                @@ (16383 :> 36) @@ (16384 :> 37)
                                @@ (16385 :> 38) @@ (24576 :> 39)
                                @@ (32767 :> 40)]] }

\* a cell of RAM and its three mirrors, the ends of the RAM, PPU, APU/IO and
\* PRG-ROM windows
BusAddrs ==
    {0, 2048, 4096, 6144, 2047, 8191, 8192, 16383, 16384, 32767,
     32768, 49151, 49152, 65535}

\* the byte of the single write
ProbeByte == 85

Bus == [cpu_vram |-> cpu_vram, rom |-> rom, ctl |-> "ok"]

\* the fields of the CPU: the Bus is constructed without one
cpuvars == <<acc, status, index_x, index_y, sp, pc, memory, phase, host_calls,
             fetched, calls, seen, last>>

BusAccess(kind, address, value, result) ==
    [kind |-> kind, address |-> address, value |-> value, result |-> result,
     pre |-> Bus, before |-> bus_last.kind]

InitBus ==
    /\ acc = CPU_new.acc
    /\ status = CPU_new.status
    /\ index_x = CPU_new.index_x
    /\ index_y = CPU_new.index_y
    /\ sp = CPU_new.sp
    /\ pc = CPU_new.pc
    /\ memory = CPU_new.memory
    /\ phase = "idle"
    /\ overflow_checks \in BOOLEAN
    /\ host_calls = 0
    /\ fetched = 0
    /\ calls = 0
    /\ seen = NoCall
    /\ last = [kind |-> "new", opcode |-> PANIC, arg |-> <<>>, pre |-> CPU_new,
               calls |-> 0, seen |-> NoCall, before |-> "new"]
    /\ \E r \in Roms :
          /\ cpu_vram = Bus_new(r).cpu_vram
          /\ rom = Bus_new(r).rom
    /\ bus_phase = "idle"
    /\ bus_ops = 0
    /\ bus_last = [kind |-> "new"]

\* the Bus after a read that returned v: a panic ends the sequence
ReadOutcome(kind, address, v, after) ==
    /\ bus_phase' = IF v = PANIC THEN "panicked" ELSE after
    /\ bus_last' = BusAccess(kind, address, 0, v)
    /\ bus_ops' = bus_ops + 1
    /\ UNCHANGED <<cpu_vram, rom>>

\* the Bus after a write that left the record b
WriteOutcome(kind, address, value, b, after) ==
    /\ cpu_vram' = b.cpu_vram
    /\ rom' = b.rom
    /\ bus_phase' = IF b.ctl = "panic" THEN "panicked" ELSE after
    /\ bus_last' = BusAccess(kind, address, value, 0)
    /\ bus_ops' = bus_ops + 1

\* bus.mem_read(address)
BusRead ==
    /\ bus_phase = "idle"
    /\ bus_ops < MaxBusOps
    /\ \E address \in BusAddrs :
          ReadOutcome("mem_read", address, Bus_mem_read(Bus, address), "idle")
    /\ UNCHANGED <<cpuvars, overflow_checks>>

\* bus.mem_write(address, value), with the bytes 0x55 and 0xAA
BusWrite ==
    /\ bus_phase = "idle"
    /\ bus_ops < MaxBusOps
    /\ \E address \in BusAddrs, value \in {85, 170} :
          WriteOutcome("mem_write", address, value,
                       Bus_mem_write(Bus, address, value), "idle")
    /\ UNCHANGED <<cpuvars, overflow_checks>>

\* bus.mem_write_u16(pos, data) of the word 0x1234: inside RAM, and across
\* the ends of the RAM, APU/IO and PRG-ROM windows
BusWriteU16 ==
    /\ bus_phase = "idle"
    /\ bus_ops < MaxBusOps
    /\ \E pos \in {0, 8191, 32767, 65535}, data \in {4660} :
          WriteOutcome("mem_write_u16", pos, data,
                       Bus_mem_write_u16(Bus, pos, data), "idle")
    /\ UNCHANGED <<cpuvars, overflow_checks>>

\* the only access of a new Bus: mem_read at any address
ProbeRead ==
    /\ bus_phase = "idle"
    /\ bus_ops = 0
    /\ \E address \in 0..65535 :
          ReadOutcome("mem_read", address, Bus_mem_read(Bus, address), "done")
    /\ UNCHANGED <<cpuvars, overflow_checks>>

\* the first access of a new Bus: mem_write of ProbeByte at any address
ProbeWrite ==
    /\ bus_phase = "idle"
    /\ bus_ops = 0
    /\ \E address \in 0..65535 :
          WriteOutcome("mem_write", address, ProbeByte,
                       Bus_mem_write(Bus, address, ProbeByte), "written")
    /\ UNCHANGED <<cpuvars, overflow_checks>>

\* mem_read at one of the four mirrors of the RAM cell just written
ReadBack ==
    /\ bus_phase = "written"
    /\ bus_last.address \in RAM..RAM_MIRRORS_END
    /\ \E j \in 0..3 :
          ReadOutcome("read_back", (bus_last.address % 2048) + j * 2048,
                      Bus_mem_read(Bus, (bus_last.address % 2048) + j * 2048),
                      "done")
    /\ UNCHANGED <<cpuvars, overflow_checks>>

NextBus ==
    BusRead \/ BusWrite \/ BusWriteU16 \/ ProbeRead \/ ProbeWrite \/ ReadBack

SpecBus == InitBus /\ [][NextBus]_vars

-----------------------------------------------------------------------------
(* Properties of the Bus *)

\* the Bus the last access was made on
BusBefore == bus_last.pre

\* the four addresses of a RAM cell
Mirrors(address) == {(address % 2048) + j * 2048 : j \in 0..3}

\* C17: mem_write(a + k * 0x0800, v) with a in 0x0000..0x07FF and k in 0..3
\* is followed by mem_read(a + j * 0x0800) = v for every j in 0..3, and
\* changes the value read at no other address of 0x0000..0x1FFF.
C17_RamMirror ==
    /\ (bus_last.kind = "mem_write" /\ bus_last.address \in RAM..RAM_MIRRORS_END) =>
          /\ bus_phase # "panicked"
          /\ \A b \in Mirrors(bus_last.address) :
                Bus_mem_read(Bus, b) = bus_last.value
          /\ Differing(BusBefore.cpu_vram, cpu_vram) \subseteq {bus_last.address % 2048}
          /\ \A b \in (BusAddrs \cap (RAM..RAM_MIRRORS_END)) \ Mirrors(bus_last.address) :
                Bus_mem_read(Bus, b) = Bus_mem_read(BusBefore, b)
          /\ (bus_phase = "idle" /\ bus_ops = 1) =>
                \A b \in (RAM..RAM_MIRRORS_END) \ Mirrors(bus_last.address) :
                    Bus_mem_read(Bus, b) = Bus_mem_read(BusBefore, b)
    /\ bus_last.kind = "read_back" =>
          /\ bus_last.address \in RAM..RAM_MIRRORS_END
          /\ bus_last.result = ProbeByte

\* C17 witness: 0x55 written at 0x1FFF has been read back at 0x07FF
C17_Witness ==
    /\ bus_last.kind = "read_back"
    /\ bus_last.address = 2047
    /\ bus_last.result = ProbeByte
    /\ Load8(cpu_vram, 2047) = ProbeByte
    /\ Bus_mem_read(Bus, RAM_MIRRORS_END) = ProbeByte
    /\ Bus_mem_read(Bus, 2046) = 0
    /\ bus_ops = 2

\* C18: a read at 0x8000 + i returns PRG[i mod len(PRG)] for a PRG-ROM of
\* 16 KiB or 32 KiB: with 16 KiB the reads at 0x8000 + i and 0xC000 + i both
\* return PRG[i], with 32 KiB the read at 0x8000 + i returns PRG[i] for every
\* i in 0..0x7FFF; no read indexes past the end of the PRG-ROM.
C18_PrgRead ==
    (/\ bus_last.kind = "mem_read"
     /\ bus_last.address \in PRG_BASE..65535
     /\ rom.prg_rom.len \in {PRG_BANK, 2 * PRG_BANK}) =>
        LET i == bus_last.address - PRG_BASE
        IN  /\ bus_last.result # PANIC
            /\ bus_last.result = Load8(rom.prg_rom.bytes, i % rom.prg_rom.len)
            /\ rom.prg_rom.len = PRG_BANK =>
                  /\ bus_last.result = Bus_mem_read(Bus, PRG_BASE + (i % PRG_BANK))
                  /\ bus_last.result
                       = Bus_mem_read(Bus, PRG_BASE + PRG_BANK + (i % PRG_BANK))
            /\ rom.prg_rom.len = 2 * PRG_BANK =>
                  bus_last.result = Load8(rom.prg_rom.bytes, i)

\* C18 witness: with a PRG-ROM of 16 KiB the read at 0xC001 has returned PRG[1]
C18_Witness ==
    /\ bus_last.kind = "mem_read"
    /\ bus_last.address = PRG_BASE + PRG_BANK + 1
    /\ rom.prg_rom.len = PRG_BANK
    /\ bus_last.result = 18
    /\ Load8(rom.prg_rom.bytes, 1) = 18

\* addresses of the PRG-ROM window at which the read-only content is read
RomProbes ==
    {PRG_BASE, PRG_BASE + 1, PRG_BASE + 8192, PRG_BASE + PRG_BANK - 1,
     PRG_BASE + PRG_BANK, PRG_BASE + PRG_BANK + 1, PRG_BASE + 24576, 65535}

\* a write that reached an address of 0x8000..0xFFFF panicked and stored nothing
RomWritesRejected ==
    /\ (bus_last.kind = "mem_write" /\ bus_last.address \in PRG_BASE..65535) =>
          /\ bus_phase = "panicked"
          /\ cpu_vram = BusBefore.cpu_vram
    /\ (/\ bus_last.kind = "mem_write_u16"
         /\ \/ bus_last.address \in PRG_BASE..65535
            \/ bus_last.address + 1 \in PRG_BASE..65535) =>
          bus_phase = "panicked"

\* C19: every mem_write, and every byte of a mem_write_u16, at an address
\* in 0x8000..0xFFFF ends in a panic and stores nothing; no access of the
\* Bus changes the PRG-ROM or the value read anywhere in 0x8000..0xFFFF.
C19_RomReadOnly ==
    /\ []RomWritesRejected
    /\ [][/\ rom' = rom
          /\ \A a \in RomProbes : Bus_mem_read(Bus, a)' = Bus_mem_read(Bus, a)]_vars

\* C19 witness: after a write to RAM, mem_write at 0x8000 has panicked
C19_Witness ==
    /\ bus_last.kind = "mem_write"
    /\ bus_last.address = PRG_BASE
    /\ bus_last.before = "mem_write"
    /\ bus_phase = "panicked"
    /\ Load8(cpu_vram, 0) = 85
    /\ Bus_mem_read(Bus, PRG_BASE) = Load8(rom.prg_rom.bytes, 0)

\* C20: every read and write at an address in 0x2000..0x3FFF ends in a
\* panic; every read in 0x4000..0x7FFF returns 0; every write in
\* 0x4000..0x7FFF returns and changes neither RAM nor the value read at any
\* address.
C20_Unmapped ==
    /\ (/\ bus_last.kind \in {"mem_read", "mem_write"}
         /\ bus_last.address \in PPU_REGISTERS..PPU_MIRRORS_END) =>
          /\ bus_phase = "panicked"
          /\ cpu_vram = BusBefore.cpu_vram
    /\ (/\ bus_last.kind = "mem_write_u16"
         /\ \/ bus_last.address \in PPU_REGISTERS..PPU_MIRRORS_END
            \/ bus_last.address + 1 \in PPU_REGISTERS..PPU_MIRRORS_END) =>
          bus_phase = "panicked"
    /\ (/\ bus_last.kind = "mem_read"
         /\ bus_last.address \in (PPU_MIRRORS_END + 1)..(PRG_BASE - 1)) =>
          /\ bus_last.result = 0
          /\ bus_phase # "panicked"
    /\ (/\ bus_last.kind = "mem_write"
         /\ bus_last.address \in (PPU_MIRRORS_END + 1)..(PRG_BASE - 1)) =>
          /\ bus_phase # "panicked"
          /\ cpu_vram = BusBefore.cpu_vram
          /\ rom = BusBefore.rom
          /\ \A a \in BusAddrs : Bus_mem_read(Bus, a) = Bus_mem_read(BusBefore, a)
          /\ Bus_mem_read(Bus, bus_last.address) = 0

\* C20 witness: after a write to RAM, the write of 0xAA at 0x7FFF has
\* returned and RAM is as it was
C20_Witness ==
    /\ bus_last.kind = "mem_write"
    /\ bus_last.address = PRG_BASE - 1
    /\ bus_last.value = 170
    /\ bus_last.before = "mem_write"
    /\ bus_phase = "idle"
    /\ Load8(cpu_vram, 2047) = 85
    /\ cpu_vram = BusBefore.cpu_vram

-----------------------------------------------------------------------------
(* Instructions over every byte value: the loop of run_with_callback entered *)
(* at 0x0600 on one instruction or a short program, with every value of the  *)
(* byte it works on.  pc stays where no u16 addition overflows, so one build *)
(* stands for both.                                                          *)

\* bound on the opcodes fetched from each of these programs
MaxValueSteps == 5

\* the bytes of an instruction: its opcode and as many operand bytes as the
\* length of its table entry asks for
Encode(opcode, lo, hi) ==
    SubSeq(<<opcode, lo, hi>>, 1, CPU_INSTRUCTIONS_MAP[opcode].len)

\* the CPU with a program at 0x0600 and the bytes of `data` around it
ValueCpu(program, a, x, y, st, s, data) ==
    [acc |-> a, status |-> st, index_x |-> x, index_y |-> y, sp |-> s,
     pc |-> LOAD_BASE, memory |-> PutBytes(data, LOAD_BASE, program),
     ctl |-> "ok"]

InitValues ==
    LET \* index values around the wraps of the u8 and u16 additions
        IndexValues == {0, 1, 2, 127, 128, 240, 254, 255}
        \* the zero page filled with pointers: cell z holds a non-zero byte,
        \* neighbours differ, and the cells 0x00 and 0xFF hold 0xFF
        PointerTable == [z \in 0..255 |-> 255 - ((3 * z) % 255)]
        \* I|U; D, I, C and U; N, V and U
        Statuses == {36, 45, 224}
    IN
    \* a byte without table entry, in either build
    \/ \E opcode \in (0..255) \ DOMAIN CPU_INSTRUCTIONS_MAP :
          \E c \in {ValueCpu(<<opcode, 16, 2>>, 165, 1, 2, 231, STACK_RESET,
                             StepData)} :
              Running(c, BOOLEAN)
    \* PHP; PLP on every status with U set and B clear, which A holds too
    \/ \E a \in 0..63, s \in StackSps :
          \E st \in {BitOr(BitAnd(a, 15) + 4 * BitAnd(a, 48), BREAK2)} :
              \E c \in {ValueCpu(<<OP_PHP, OP_PLP>>, st, s, 0, st, s, StackData)} :
                  Running(c, {TRUE})
    \* stores through the indexed and indirect modes, the index in X
    \/ \E opcode \in {149, 129}, b \in 0..255, i \in IndexValues :
          \E c \in {ValueCpu(Encode(opcode, b, 0), 165, i, 255 - i, 36,
                             STACK_RESET, PointerTable)} :
              Running(c, {TRUE})
    \* the index in Y (STX zp,Y stores X)
    \/ \E opcode \in {150, 145}, b \in 0..255, i \in IndexValues :
          \E c \in {ValueCpu(Encode(opcode, b, 0), 165, 255 - i, i, 36,
                             STACK_RESET, PointerTable)} :
              Running(c, {TRUE})
    \* STA abs,X and STA abs,Y in the first, a middle and the last page
    \/ \E opcode \in {157, 153}, b \in 0..255, hi \in {0, 48, 255},
          i \in IndexValues :
          \E c \in {ValueCpu(Encode(opcode, b, hi), 165, i, i, 36,
                             STACK_RESET, PointerTable)} :
              Running(c, {TRUE})
    \* LDA #b
    \/ \E b \in 0..255 :
          \E c \in {ValueCpu(Encode(169, b, 0), 165, 1, 2, 36, STACK_RESET,
                             PointerTable)} :
              Running(c, {TRUE})
    \* ASL, LSR, ROL, ROR on the accumulator and on a memory cell
    \/ \E opcode \in {10, 6, 22, 14, 30, 74, 70, 86, 78, 94,
                      42, 38, 54, 46, 62, 106, 102, 118, 110, 126},
          v \in 0..255, carry \in {0, CARRY} :
          \E c \in {WithOperand(
                      ValueCpu(Encode(opcode, 16, 2),
                               IF CPU_INSTRUCTIONS_MAP[opcode].mode = "NonAddressing"
                               THEN v ELSE 90,
                               1, 2, BitOr(CPU_new.status, carry), STACK_RESET,
                               ZeroMemory),
                      opcode, v)} :
              Running(c, {TRUE})
    \* INC, DEC on a memory cell, INX, INY, DEX, DEY on X = Y = v
    \/ \E opcode \in {230, 246, 238, 254, 198, 214, 206, 222, 232, 200, 202, 136},
          v \in 0..255, st \in {36, 101} :
          \E c \in {WithOperand(
                      ValueCpu(Encode(opcode, 16, 2), 90, v, v, st, STACK_RESET,
                               ZeroMemory),
                      opcode, v)} :
              Running(c, {TRUE})
    \* INX; INX; INX from X = A = v
    \/ \E v \in 0..255 :
          \E c \in {ValueCpu(<<232, 232, 232>>, v, v, 0, 36, STACK_RESET,
                             ZeroMemory)} :
              Running(c, {TRUE})
    \* LDA #$C0; TAX; INX; BRK and LDA #$FF; TAX; INX; INX; BRK after a reset
    \/ \E program \in {<<169, 192, 170, 232, 0>>, <<169, 255, 170, 232, 232, 0>>} :
          \E c \in {ValueCpu(program, 0, 0, 0, CPU_new.status, STACK_RESET,
                             ZeroMemory)} :
              Running(c, {TRUE})
    \* BIT zp and BIT abs on every operand
    \/ \E opcode \in {36, 44}, a \in {0, 1, 64, 85, 128, 170, 192, 255},
          v \in 0..255, st \in {36, 231} :
          \E c \in {WithOperand(
                      ValueCpu(Encode(opcode, 16, 2), a, 1, 2, st, STACK_RESET,
                               ZeroMemory),
                      opcode, v)} :
              Running(c, {TRUE})
    \* ADC #b and SBC #b with either carry, in and out of decimal mode
    \/ \E opcode \in {ADC_IMMEDIATE, SBC_IMMEDIATE}, a \in 0..255,
          b \in {0, 1, 9, 10, 15, 16, 80, 99, 127, 128, 153, 154, 240, 255},
          carry \in {0, CARRY}, d \in {0, DECIMAL_MODE} :
          \E c \in {ValueCpu(Encode(opcode, b, 0), a, 1, 2,
                             BitOr(BitOr(CPU_new.status, carry), d), STACK_RESET,
                             ZeroMemory)} :
              Running(c, {TRUE})
    \* SBC in each of its modes, the byte 0x50 at address 0x0000
    \/ \E opcode \in {233, 229, 245, 237, 253, 249, 225, 241},
          a \in {0, 16, 128, 255}, v \in FlagBytes \cup {80, 170},
          st \in Statuses :
          \E c \in {WithOperand(
                      ValueCpu(Encode(opcode, 16, 2), a, 1, 2, st, STACK_RESET,
                               (0 :> 80) @@ (17 :> 2) @@ (18 :> 48) @@ (19 :> 3)),
                      opcode, v)} :
              Running(c, {TRUE})
    \* PHA; PLP; PHP; PLP: the status is made of A, then pushed and popped
    \/ \E a \in 0..255, s \in StackSps :
          \E c \in {ValueCpu(<<OP_PHA, OP_PLP, OP_PHP, OP_PLP>>, a, s, 0,
                             CPU_new.status, s, StackData)} :
              Running(c, {TRUE})
    \* RTI on three bytes of the stack page: a status, and a PC in the first
    \* page, at the operand of the RTI itself (0x0601) or in the last page
    \/ \E s \in {252, 253, 254, 255, 0}, p \in {0, 16, 48, 207, 255},
          lo \in {1, 2, 255}, hi \in {0, 6, 255}, st \in {36, 231} :
          \E c \in {ValueCpu(<<OP_RTI>>, 90, s, 0, st, s,
                             (STACK + ((s + 1) % 256) :> p)
                               @@ (STACK + ((s + 2) % 256) :> lo)
                               @@ (STACK + ((s + 3) % 256) :> hi))} :
              Running(c, {TRUE})
    \* LDA #$10, then a byte without table entry
    \/ \E opcode \in (0..255) \ DOMAIN CPU_INSTRUCTIONS_MAP :
          \E c \in {ValueCpu(<<169, 16, opcode>>, 0, 0, 0, CPU_new.status,
                             STACK_RESET, ZeroMemory)} :
              Running(c, BOOLEAN)

\* one iteration of the loop, as Step, in a run of up to MaxValueSteps opcodes
NextValues ==
    /\ phase = "running"
    /\ fetched < MaxValueSteps
    /\ StepOutcome(RunIteration(Self))
    /\ UNCHANGED <<overflow_checks, host_calls, busvars>>

SpecValues == InitValues /\ [][NextValues]_vars

-----------------------------------------------------------------------------
(* Properties of instructions over every byte value *)

\* the last step fetched a byte that has no table entry
UnknownFetched ==
    /\ last.kind = "step"
    /\ last.opcode # PANIC
    /\ last.opcode \notin DOMAIN CPU_INSTRUCTIONS_MAP

\* the fault of a byte without table entry: the run has ended in a panic, the
\* callback has not been called again, and A, X, Y, SP, the status and the
\* memory are as the previous instruction left them
UnknownOpcodeFaults ==
    UnknownFetched =>
        /\ phase = "panicked"
        /\ calls = last.calls
        /\ seen = last.seen
        /\ acc = last.pre.acc
        /\ index_x = last.pre.index_x
        /\ index_y = last.pre.index_y
        /\ sp = last.pre.sp
        /\ status = last.pre.status
        /\ memory = last.pre.memory

\* C21: fetching an opcode byte without table entry is fatal: the run ends at
\* that step (no step is taken from the faulted state), no handler runs, the
\* callback is not invoked for it, and no register other than PC, no flag and
\* no memory byte differs from the state the previous instruction left.
C21_UnknownOpcode == []UnknownOpcodeFaults /\ [][phase # "panicked"]_vars

\* C21 witness: after LDA #$10 the byte 0x02 has been fetched and has faulted
C21_Witness ==
    /\ UnknownFetched
    /\ last.opcode = UnknownOpcode
    /\ phase = "panicked"
    /\ last.pre.pc = LOAD_BASE + 2
    /\ acc = 16
    /\ calls = 1

\* the flags of a status byte that lie in the mask
Masked(st, mask) == BitAnd(st, mask)

\* C22: SBC in every addressing mode changes only A and the flags C, V, Z, N:
\* no memory byte changes (the byte at 0x0000 keeps its value), X, Y, SP, the
\* flags I and D are unchanged and PC advances by the instruction length,
\* although SBC computes on a copy whose address 0 and PC are overwritten.
C22_SbcFrame ==
    (Completed /\ LastEntry.mnemonic = "SBC") =>
        /\ memory = last.pre.memory
        /\ Load8(memory, 0) = Load8(last.pre.memory, 0)
        /\ index_x = last.pre.index_x
        /\ index_y = last.pre.index_y
        /\ sp = last.pre.sp
        /\ Masked(status, INTERRUPT_DISABLE + DECIMAL_MODE + BREAK + BREAK2)
             = Masked(last.pre.status,
                      INTERRUPT_DISABLE + DECIMAL_MODE + BREAK + BREAK2)
        /\ pc = (last.pre.pc + LastEntry.len) % 65536

\* C22 witness: SBC ($10),Y has subtracted 0x50 from 0x10 in decimal mode while
\* address 0x0000 holds 0x50 (the scratch copy held 0xAF there)
C22_Witness ==
    /\ Completed
    /\ last.opcode = 241
    /\ LastOperand = 80
    /\ last.pre.acc = 16
    /\ Flag(last.pre.status, DECIMAL_MODE)
    /\ Load8(memory, 0) = 80
    /\ acc = 192
    /\ pc = LOAD_BASE + 2

\* the opcode, and the operand bytes its table entry counts, lie in the array
InstructionInside ==
    /\ last.kind = "step"
    /\ last.opcode \in DOMAIN CPU_INSTRUCTIONS_MAP
    /\ last.pre.pc + 3 <= MEM_LEN

\* C23: each of the 151 table entries has its own opcode byte and a handler
\* in the dispatch: a table opcode whose bytes lie inside memory never ends in
\* the panic of the unimplemented fallback arm, nor in the panic of
\* get_operand_address asked to resolve NonAddressing.
C23_Handlers ==
    /\ Len(CPU_INSTRUCTIONS) = 151
    /\ Cardinality(DOMAIN CPU_INSTRUCTIONS_MAP) = 151
    /\ InstructionInside => phase # "panicked"
    /\ (InstructionInside /\ LastEntry.mode = "NonAddressing") =>
          get_operand_address([last.pre EXCEPT !.pc = last.pre.pc + 1],
                              LastEntry.mode) = PANIC

\* C23 witness: ASL A (0x0A, NonAddressing in the table) has been dispatched
\* at 0x0600 and has shifted A without resolving an address
C23_Witness ==
    /\ Completed
    /\ InstructionInside
    /\ last.opcode = 10
    /\ LastEntry.mode = "NonAddressing"
    /\ last.pre.acc = 16
    /\ acc = 32
    /\ pc = LOAD_BASE + 1

\* the operand bytes of the last step and a byte of the memory it started on
OperandLo == Load8(last.pre.memory, last.pre.pc + 1)
OperandHi == Load8(last.pre.memory, last.pre.pc + 2)
Before8(address) == Load8(last.pre.memory, address)

\* the little-endian word of the zero-page cells p and (p + 1) mod 256
ZeroPageWord(p) == Before8(p) + 256 * Before8((p + 1) % 256)

\* the address the 6502 resolves for the last step's mode
ResolvedAddress ==
    LET mode == LastEntry.mode
        b == OperandLo
        x == last.pre.index_x
        y == last.pre.index_y
    IN  CASE mode = "Immediate" -> last.pre.pc + 1
          [] mode = "ZeroPageX" -> (b + x) % 256
          [] mode = "ZeroPageY" -> (b + y) % 256
          [] mode = "AbsoluteX" -> (b + 256 * OperandHi + x) % 65536
          [] mode = "AbsoluteY" -> (b + 256 * OperandHi + y) % 65536
          [] mode = "IndirectX" -> ZeroPageWord((b + x) % 256)
          [] mode = "IndirectY" -> (ZeroPageWord(b) + y) % 65536

IndexedModes ==
    {"Immediate", "ZeroPageX", "ZeroPageY", "AbsoluteX", "AbsoluteY",
     "IndirectX", "IndirectY"}

\* C24: operand resolution wraps: ZeroPage,X/Y give (b + index) mod 256,
\* inside the zero page; Indirect,X reads its target from p and (p + 1) mod
\* 256 with p = (b + X) mod 256; Indirect,Y reads its base from b and
\* (b + 1) mod 256 and adds Y modulo 2^16; Absolute,X/Y add the index modulo
\* 2^16; Immediate yields PC itself.  Resolution changes no register or
\* memory: a store writes its register to the resolved cell and nothing else.
C24_Resolution ==
    (/\ last.kind = "step"
     /\ last.opcode \in DOMAIN CPU_INSTRUCTIONS_MAP
     /\ LastEntry.mode \in IndexedModes
     /\ last.pre.pc + 3 <= MEM_LEN) =>
        /\ LastAddress = ResolvedAddress
        /\ LastEntry.mode \in {"ZeroPageX", "ZeroPageY"} => LastAddress \in 0..255
        /\ (Completed /\ LastEntry.mnemonic \in {"STA", "STX", "STY"}) =>
              /\ Differing(memory, last.pre.memory) \subseteq {ResolvedAddress}
              /\ Load8(memory, ResolvedAddress)
                   = CASE LastEntry.mnemonic = "STA" -> last.pre.acc
                       [] LastEntry.mnemonic = "STX" -> last.pre.index_x
                       [] LastEntry.mnemonic = "STY" -> last.pre.index_y
              /\ <<acc, status, index_x, index_y, sp>>
                   = <<last.pre.acc, last.pre.status, last.pre.index_x,
                       last.pre.index_y, last.pre.sp>>
        /\ (Completed /\ last.opcode = 169) => acc = OperandLo

\* C24 witness: STA ($FF),Y with Y = 2 has taken its base 0xFFFF from the
\* cells 0x00FF and 0x0000 and has stored A at 0x0001
C24_Witness ==
    /\ Completed
    /\ last.opcode = 145
    /\ OperandLo = 255
    /\ last.pre.index_y = 2
    /\ Before8(255) = 255
    /\ Before8(0) = 255
    /\ Before8(256) = 0
    /\ Before8(1) # 165
    /\ Load8(memory, 1) = 165

\* PHA; PLP; PHP; PLP: the program that makes a status of A, pushes it and
\* pops it again
StatusRoundTrip == <<OP_PHA, OP_PLP, OP_PHP, OP_PLP>>

\* the status PLP makes of a popped byte: B cleared, U set
Popped(byte) == BitOr(BitAnd(byte, 255 - BREAK), BREAK2)

\* the program at 0x0600 is StatusRoundTrip and k of its instructions ran
RoundTripAt(k) ==
    /\ ProgramIs(StatusRoundTrip)
    /\ phase = "running"
    /\ fetched = k
    /\ pc = LOAD_BASE + k

\* C25: PHP pushes (status OR 0x30) and leaves the in-CPU status unchanged;
\* PLP sets the status to (popped byte AND NOT 0x10) OR 0x20.  PHP followed by
\* PLP restores status and SP: before the PHP of PHA; PLP; PHP; PLP (2
\* instructions ran) and after its last PLP (4 ran) the status is the one
\* made of A and SP is the SP the program started with, which X holds; after
\* PHP; PLP started on a status that A holds too, the status is A again.
C25_PhpPlp ==
    /\ (Completed /\ last.opcode = OP_PHP) =>
          /\ Load8(memory, STACK + last.pre.sp) = BitOr(last.pre.status, 48)
          /\ status = last.pre.status
          /\ sp = (last.pre.sp + 255) % 256
    /\ (Completed /\ last.opcode = OP_PLP) =>
          /\ status = Popped(Before8(STACK + sp))
          /\ sp = (last.pre.sp + 1) % 256
    /\ (RoundTripAt(2) \/ RoundTripAt(4)) =>
          /\ status = Popped(acc)
          /\ sp = index_x
    /\ RoundTripAt(4) =>
          /\ last.opcode = OP_PLP
          /\ status = Popped(BitOr(last.pre.status, 48))
          /\ Before8(STACK + sp) = BitOr(Popped(acc), 48)
    /\ (/\ ProgramIs(<<OP_PHP, OP_PLP>>)
        /\ phase = "running"
        /\ fetched = 2
        /\ pc = LOAD_BASE + 2) =>
          /\ last.opcode = OP_PLP
          /\ status = acc
          /\ sp = index_x

\* C25 witness: with SP = 0x00 and A = 0xCF, PHP pushed 0xFF at 0x0100 and
\* PLP restored the status 0xEF (N, V, D, I, Z, C and U) and SP = 0x00
C25_Witness ==
    /\ RoundTripAt(4)
    /\ acc = 207
    /\ index_x = 0
    /\ sp = 0
    /\ status = 239
    /\ Load8(memory, STACK) = 255
    /\ last.pre.sp = 255

\* the byte the k-th pop of the last step read: the stack pointer is
\* incremented modulo 256 before each read
PoppedByte(k) == Before8(STACK + ((last.pre.sp + k) % 256))

\* C26: RTI pops the status first (stored with B cleared and U set), then the
\* PC low byte, then the PC high byte; it ends with SP = (SP + 3) mod 256 and
\* PC equal to the popped 16-bit value: no +1, and no length adjustment even
\* when the popped value is the address that follows the RTI.
C26_Rti ==
    (Completed /\ last.opcode = OP_RTI) =>
        /\ status = Popped(PoppedByte(1))
        /\ pc = PoppedByte(2) + 256 * PoppedByte(3)
        /\ sp = (last.pre.sp + 3) % 256
        /\ acc = last.pre.acc
        /\ index_x = last.pre.index_x
        /\ index_y = last.pre.index_y
        /\ memory = last.pre.memory

\* C26 witness: RTI at 0x0600 with SP = 0xFE has popped the status 0xCF from
\* 0x01FF and the address 0x0601, which follows it, from 0x0100 and 0x0101
C26_Witness ==
    /\ Completed
    /\ last.opcode = OP_RTI
    /\ last.pre.pc = LOAD_BASE
    /\ last.pre.sp = 254
    /\ Before8(511) = 207
    /\ Before8(256) = 1
    /\ Before8(257) = 6
    /\ status = 239
    /\ pc = LOAD_BASE + 1
    /\ sp = 1

\* the shifts and rotates on the accumulator
AccumulatorShifts == {10, 74, 42, 106}

\* the byte the last shift or rotate worked on, its carry-in, and its result
ShiftValue ==
    IF last.opcode \in AccumulatorShifts THEN last.pre.acc ELSE Before8(LastAddress)
ShiftCarry == IF Flag(last.pre.status, CARRY) THEN 1 ELSE 0
ShiftResult ==
    IF last.opcode \in AccumulatorShifts THEN acc ELSE Load8(memory, LastAddress)

\* C27: for every byte v and carry-in c, ASL gives (2v) mod 256 with C = bit 7
\* of v; LSR gives floor(v / 2) with C = bit 0 of v and N = 0; ROL gives
\* ((2v) mod 256) + c with C = bit 7 of v; ROR gives floor(v / 2) + 128c with
\* C = bit 0 of v.  The accumulator opcodes change A and no memory; the memory
\* opcodes change only the resolved cell and leave A unchanged.
C27_Shifts ==
    (Completed /\ LastEntry.mnemonic \in {"ASL", "LSR", "ROL", "ROR"}) =>
        LET v == ShiftValue
            c == ShiftCarry
            m == LastEntry.mnemonic
        IN  /\ ShiftResult = CASE m = "ASL" -> (2 * v) % 256
                               [] m = "LSR" -> v \div 2
                               [] m = "ROL" -> ((2 * v) % 256) + c
                               [] m = "ROR" -> (v \div 2) + 128 * c
            /\ Flag(status, CARRY) <=>
                  IF m \in {"ASL", "ROL"} THEN v >= 128 ELSE v % 2 = 1
            /\ m = "LSR" => ~Flag(status, NEGATIVE)
            /\ IF last.opcode \in AccumulatorShifts
               THEN /\ LastEntry.mode = "NonAddressing"
                    /\ memory = last.pre.memory
               ELSE /\ Differing(memory, last.pre.memory) \subseteq {LastAddress}
                    /\ acc = last.pre.acc
            /\ index_x = last.pre.index_x
            /\ index_y = last.pre.index_y
            /\ sp = last.pre.sp

\* C27 witness: ROR $0210,X with X = 1 has rotated 0x01 with carry-in 1 to
\* 0x80 in the cell 0x0211, with carry-out 1 and A left at 0x5A
C27_Witness ==
    /\ Completed
    /\ last.opcode = 126
    /\ LastAddress = 529
    /\ ShiftValue = 1
    /\ ShiftCarry = 1
    /\ Load8(memory, 529) = 128
    /\ Flag(status, CARRY)
    /\ Flag(status, NEGATIVE)
    /\ acc = 90

\* C28: BIT with operand M sets Z = 1 iff (A AND M) = 0, N = bit 7 of M and
\* V = bit 6 of M (from M, not from A AND M), and changes neither A, X, Y, SP,
\* C, nor any memory byte.
C28_Bit ==
    (Completed /\ LastEntry.mnemonic = "BIT") =>
        LET M == LastOperand
        IN  /\ Flag(status, ZERO) <=> BitAnd(last.pre.acc, M) = 0
            /\ Flag(status, NEGATIVE) <=> M >= 128
            /\ Flag(status, OVERFLOW) <=> (M \div 64) % 2 = 1
            /\ Flag(status, CARRY) <=> Flag(last.pre.status, CARRY)
            /\ acc = last.pre.acc
            /\ index_x = last.pre.index_x
            /\ index_y = last.pre.index_y
            /\ sp = last.pre.sp
            /\ memory = last.pre.memory

\* C28 witness: BIT $0210 with A = 0x01 and M = 0xC1 has set N and V, which
\* A AND M = 0x01 does not have, and has cleared Z
C28_Witness ==
    /\ Completed
    /\ last.opcode = 44
    /\ last.pre.acc = 1
    /\ LastOperand = 193
    /\ ~Flag(last.pre.status, NEGATIVE)
    /\ Flag(status, NEGATIVE)
    /\ Flag(status, OVERFLOW)
    /\ ~Flag(status, ZERO)
    /\ acc = 1

Increments == {"INC", "INX", "INY"}
Decrements == {"DEC", "DEX", "DEY"}

\* the byte the last increment or decrement worked on, and its result
CountedBefore ==
    CASE LastEntry.mnemonic \in {"INC", "DEC"} -> Before8(LastAddress)
      [] LastEntry.mnemonic \in {"INX", "DEX"} -> last.pre.index_x
      [] LastEntry.mnemonic \in {"INY", "DEY"} -> last.pre.index_y
CountedAfter ==
    CASE LastEntry.mnemonic \in {"INC", "DEC"} -> Load8(memory, LastAddress)
      [] LastEntry.mnemonic \in {"INX", "DEX"} -> index_x
      [] LastEntry.mnemonic \in {"INY", "DEY"} -> index_y

\* the program at 0x0600 has run to its BRK
Finished(program) ==
    /\ ProgramIs(program)
    /\ phase = "idle"
    /\ last.kind = "step"
    /\ last.opcode = 0
    /\ last.pre.pc = LOAD_BASE + Len(program) - 1

\* C29: INC/INX/INY add 1 modulo 256 and DEC/DEX/DEY subtract 1 modulo 256
\* without faulting and without touching C or V: 0xFF + 1 gives 0x00 with
\* Z = 1, 0x00 - 1 gives 0xFF with N = 1, n consecutive INX from X = x leave
\* X = (x + n) mod 256; LDA #$C0; TAX; INX gives X = 0xC1 and LDA #$FF; TAX;
\* INX; INX gives X = 0x01.
C29_IncDec ==
    /\ (/\ InstructionInside
        /\ LastEntry.mnemonic \in Increments \cup Decrements
        /\ LastEntry.mnemonic \in {"INC", "DEC"} =>
               LastAddress \in 0..(MEM_LEN - 1)) =>
          /\ phase = "running"
          /\ CountedAfter = IF LastEntry.mnemonic \in Increments
                            THEN (CountedBefore + 1) % 256
                            ELSE (CountedBefore + 255) % 256
          /\ Masked(status, CARRY + OVERFLOW)
               = Masked(last.pre.status, CARRY + OVERFLOW)
          /\ (LastEntry.mnemonic \in Increments /\ CountedBefore = 255) =>
                CountedAfter = 0 /\ Flag(status, ZERO)
          /\ (LastEntry.mnemonic \in Decrements /\ CountedBefore = 0) =>
                CountedAfter = 255 /\ Flag(status, NEGATIVE)
    /\ (/\ ProgramIs(<<232, 232, 232>>)
        /\ phase = "running"
        /\ fetched \in 0..3
        /\ pc = LOAD_BASE + fetched) =>
          index_x = (acc + fetched) % 256
    /\ Finished(<<169, 192, 170, 232, 0>>) => index_x = 193
    /\ Finished(<<169, 255, 170, 232, 232, 0>>) => index_x = 1

\* C29 witness: LDA #$FF; TAX; INX; INX; BRK has run from a reset CPU and has
\* left X = 0x01
C29_Witness ==
    /\ Finished(<<169, 255, 170, 232, 232, 0>>)
    /\ fetched = 5
    /\ calls = 4
    /\ acc = 255
    /\ index_x = 1

\* the CPU the last step started on, with the D flag inverted
DecimalTwin == [last.pre EXCEPT !.status = BitXor(@, DECIMAL_MODE)]

\* the CPU `twin` ended with the A, C, V, Z and N of the current state, and
\* with the D flag it started with
SameArithmetic(twin) ==
    /\ twin.ctl = "ok"
    /\ twin.acc = acc
    /\ Masked(twin.status, CARRY + OVERFLOW + ZERO + NEGATIVE)
         = Masked(status, CARRY + OVERFLOW + ZERO + NEGATIVE)
    /\ Masked(twin.status, DECIMAL_MODE) = Masked(DecimalTwin.status, DECIMAL_MODE)

\* C30: ADC and SBC ignore decimal mode: the same ADC or SBC executed from
\* the state that differs only in the D flag ends with the same A, C, V, Z
\* and N, and neither instruction changes D.
C30_DecimalIgnored ==
    (Completed /\ LastEntry.mnemonic \in {"ADC", "SBC"}) =>
        /\ SameArithmetic(RunIteration(DecimalTwin).cpu)
        /\ Masked(status, DECIMAL_MODE) = Masked(last.pre.status, DECIMAL_MODE)

\* C30 witness: ADC #$09 with A = 0x09, C = 0 and D = 1 has given the binary
\* sum 0x12, as it does with D = 0 (a decimal adder would give 0x18)
C30_Witness ==
    /\ Completed
    /\ last.opcode = ADC_IMMEDIATE
    /\ AluA = 9
    /\ AluB = 9
    /\ AluC = 0
    /\ Flag(last.pre.status, DECIMAL_MODE)
    /\ Flag(status, DECIMAL_MODE)
    /\ acc = 18
    /\ RunIteration(DecimalTwin).cpu.acc = 18


-----------------------------------------------------------------------------
(* Whole runs: load_and_run of a program, and runs of register contents,
   followed to the return of run, to a fault, or without end *)

\* fetched and calls count modulo MaxRunSteps + 1: the loop of run has no
\* counter of its own, and a program that loops keeps stepping
MaxRunSteps == 10

InitRun ==
    LET \* straight-line programs, each ending with BRK
        Straight ==
            { <<0>>,                                    \* BRK
              <<234, 0>>,                               \* NOP
              <<169, 5, 0>>,                            \* LDA #$05
              <<169, 192, 170, 232, 0>>,                \* LDA; TAX; INX
              <<169, 255, 170, 232, 232, 0>>,           \* LDA; TAX; INX; INX
              <<56, 72, 232, 104, 0>>,                  \* SEC; PHA; INX; PLA
              <<169, 85, 133, 16, 230, 16, 166, 16, 0>>,
                                      \* LDA #$55; STA $10; INC $10; LDX $10
              <<169, 1, 141, 0, 2, 238, 0, 2, 173, 0, 2, 0>>,
                              \* LDA #1; STA $0200; INC $0200; LDA $0200
              <<162, 1, 181, 255, 0>>,                  \* LDX #1; LDA $FF,X
              <<169, 80, 105, 80, 233, 1, 201, 5, 0>>,
                                      \* LDA #$50; ADC #$50; SBC #1; CMP #5
              <<104, 104, 104, 8, 40, 0>>,    \* PLA; PLA; PLA; PHP; PLP
              <<162, 0, 154, 72, 72, 186, 0>>,
                                      \* LDX #0; TXS; PHA; PHA; TSX
              <<169, 129, 133, 16, 6, 16, 102, 16, 36, 16, 0>>,
                              \* LDA #$81; STA $10; ASL $10; ROR $10; BIT $10
              <<173, 255, 255, 0>>,                     \* LDA $FFFF
              <<169, 7, 141, 255, 255, 0>> }            \* LDA #7; STA $FFFF
        \* programs that never reach a BRK
        Loops ==
            { <<76, 0, 6>>,                             \* JMP $0600
              <<232, 76, 0, 6>>,                        \* INX; JMP $0600
              <<208, 254>>,                             \* BNE to itself
              <<169, 1, 76, 2, 6>> }                    \* LDA #1; JMP $0602
        \* a byte without a table entry
        Faults == { <<232, 2>> }
        Rotations ==
            { <<42, 106, 0>>, <<106, 42, 0>>,
              Repeat(42, 9) \o <<0>>, Repeat(106, 9) \o <<0>> }
    IN  \/ \E program \in Straight \cup Loops \cup Faults :
           \E c \in {reset(load(CPU_new, program))} : Running(c, BOOLEAN)
        \* ROL A and ROR A on every accumulator and carry; X and Y keep
        \* the accumulator and the carry the run starts with
        \/ \E program \in Rotations, a \in 0..255, carry \in 0..1 :
           \E c \in {ValueCpu(program, a, a, carry, 36 + carry, STACK_RESET,
                              ZeroMemory)} : Running(c, {TRUE})

NextRun ==
    /\ phase = "running"
    /\ \E r \in {RunIteration(Self)} :
          /\ Becomes(r.cpu)
          /\ phase' = CASE r.cpu.ctl = "panic" -> "panicked"
                        [] r.cpu.ctl = "return" -> "idle"
                        [] OTHER -> "running"
          /\ fetched' = IF r.opcode = PANIC THEN fetched
                        ELSE (fetched + 1) % (MaxRunSteps + 1)
          /\ calls' = IF r.called THEN (calls + 1) % (MaxRunSteps + 1)
                      ELSE calls
          /\ seen' = IF r.called THEN r.seen ELSE seen
          /\ last' = History("step", r.opcode, <<>>)
    /\ UNCHANGED <<overflow_checks, host_calls, busvars>>

SpecRun == InitRun /\ [][NextRun]_vars

\* run is a plain loop on one thread: while it has not returned or
\* faulted, the next iteration happens.  Every iteration moves the counter
\* or ends the run, and nothing else does, so the fairness of NextRun is
\* stated on the phase and the counter.
SpecRunFair ==
    /\ SpecRun
    /\ WF_<<phase, fetched>>(
           /\ phase = "running"
           /\ phase' \in {"running", "idle", "panicked"}
           /\ fetched' \in {fetched, (fetched + 1) % (MaxRunSteps + 1)})


-----------------------------------------------------------------------------
(* C31 *)

\* the pair (C, A) read as a 9-bit number, C on top
CarryAndAcc == (IF Flag(status, CARRY) THEN 256 ELSE 0) + acc

\* the pair the run started with, kept in Y and X
StartCarryAndAcc == 256 * index_y + index_x

RECURSIVE RotateLeft9(_, _)
RotateLeft9(v, n) ==
    IF n = 0 THEN v
    ELSE RotateLeft9(((2 * v) % 512) + (v \div 256), n - 1)

RECURSIVE RotateRight9(_, _)
RotateRight9(v, n) ==
    IF n = 0 THEN v
    ELSE RotateRight9((v \div 2) + 256 * (v % 2), n - 1)

\* n one-byte instructions of the program at 0x0600 have been executed
Executed(program, n) ==
    /\ ProgramIs(program)
    /\ phase = "running"
    /\ fetched = n
    /\ pc = LOAD_BASE + n

Restored == acc = index_x /\ Flag(status, CARRY) = (index_y = 1)

\* C31: ROL A and ROR A rotate the 9-bit pair (C, A) by one place to the
\* left and to the right: for every A and C, ROL A then ROR A restores A
\* and C, ROR A then ROL A restores A and C, and nine ROL A, or nine
\* ROR A, restore A and C.
C31_Rotations ==
    /\ Executed(<<42, 106, 0>>, 2) => Restored
    /\ Executed(<<106, 42, 0>>, 2) => Restored
    /\ Executed(Repeat(42, 9) \o <<0>>, 9) => Restored
    /\ Executed(Repeat(106, 9) \o <<0>>, 9) => Restored
    /\ \A n \in 0..9 :
          /\ Executed(Repeat(42, 9) \o <<0>>, n) =>
                CarryAndAcc = RotateLeft9(StartCarryAndAcc, n)
          /\ Executed(Repeat(106, 9) \o <<0>>, n) =>
                CarryAndAcc = RotateRight9(StartCarryAndAcc, n)

\* nine ROL A brought A = 0xB5 with the carry set back
C31_Witness ==
    /\ Executed(Repeat(42, 9) \o <<0>>, 9)
    /\ index_x = 181
    /\ index_y = 1
    /\ acc = 181
    /\ Flag(status, CARRY)


-----------------------------------------------------------------------------
(* C32 *)

ControlTransfers ==
    {"JMP", "JSR", "RTS", "RTI",
     "BCC", "BCS", "BEQ", "BNE", "BMI", "BPL", "BVC", "BVS"}

\* the bytes of m from address on are table instructions that transfer no
\* control, up to a 0x00 byte
RECURSIVE StraightLine(_, _)
StraightLine(m, address) ==
    LET opcode == Load8(m, address)
    IN  \/ opcode = 0
        \/ /\ opcode \in DOMAIN CPU_INSTRUCTIONS_MAP
           /\ CPU_INSTRUCTIONS_MAP[opcode].mnemonic \notin ControlTransfers
           /\ StraightLine(m, address + CPU_INSTRUCTIONS_MAP[opcode].len)

\* the number of instructions of a straight-line program before its 0x00
RECURSIVE InstructionCount(_, _)
InstructionCount(m, address) ==
    IF Load8(m, address) = 0 THEN 0
    ELSE 1 + InstructionCount(
                 m, address + CPU_INSTRUCTIONS_MAP[Load8(m, address)].len)

\* the address of instruction number n, counted from 0, in address order
RECURSIVE InstructionAddress(_, _, _)
InstructionAddress(m, address, n) ==
    IF n = 0 \/ Load8(m, address) = 0 THEN address
    ELSE InstructionAddress(
             m, address + CPU_INSTRUCTIONS_MAP[Load8(m, address)].len, n - 1)

\* the program at 0x0600 is a straight-line one, and the last step wrote
\* none of its bytes
StraightProgram ==
    /\ StraightLine(memory, LOAD_BASE)
    /\ last.kind = "step" =>
          \A a \in LOAD_BASE..InstructionAddress(
                                  memory, LOAD_BASE,
                                  InstructionCount(memory, LOAD_BASE)) :
              Load8(last.pre.memory, a) = Load8(memory, a)

Returned == phase = "idle"

\* the run of a straight-line program does not fault, its step number n
\* fetches instruction number n - 1, and it returns on the 0x00 after the
\* last one
RunsInOrder ==
    StraightProgram =>
       /\ phase # "panicked"
       /\ phase = "running" =>
             /\ fetched <= InstructionCount(memory, LOAD_BASE)
             /\ pc = InstructionAddress(memory, LOAD_BASE, fetched)
       /\ last.kind = "step" =>
             /\ last.pre.pc =
                   InstructionAddress(memory, LOAD_BASE, fetched - 1)
             /\ last.opcode = Load8(memory, last.pre.pc)
       /\ Returned =>
             /\ fetched = InstructionCount(memory, LOAD_BASE) + 1
             /\ last.opcode = 0

\* JMP $0600 at 0x0600 is fetched again and again
JumpToItself ==
    ProgramIs(<<76, 0, 6>>) => phase = "running" /\ pc = LOAD_BASE

\* C32: a loaded program of table instructions that transfer no control and
\* do not write into the program, followed by 0x00, makes run return after
\* reset, each instruction executed once in address order; and run has no
\* instruction budget: a run that neither fetches BRK nor faults (JMP to its
\* own address) goes on executing forever.
C32_RunToBrk ==
    /\ []RunsInOrder
    /\ StraightProgram ~> Returned
    /\ []JumpToItself
    /\ \/ <>(phase \in {"idle", "panicked"})
       \/ ([]<>(fetched = 0) /\ []<>(fetched = 1))

====
